---- MODULE Spec2Model ----
(***************************************************************************)
(* The inventory-erp back end as a state machine: the request gate         *)
(* (middleware.ts), token issuance/verification (lib/auth.ts), the login   *)
(* endpoint and the item / todo / calendar-event endpoints over the        *)
(* relational store (schema.prisma).                                       *)
(*                                                                         *)
(* Strings that the code parses or compares by prefix are sequences of     *)
(* atoms: a pathname is a sequence of atoms whose concatenation is the     *)
(* path ("/api" "/items" "/" "1" "a" is /api/items/1a), a numeric string   *)
(* is its sequence of characters.                                          *)
(***************************************************************************)
EXTENDS Integers, Sequences, FiniteSets, TLC

VARIABLES
    users,      \* table users: set of rows
    items,      \* table items: set of rows
    todos,      \* table todos: set of rows
    events,     \* table calendar_events: set of rows
    seqs,       \* the last value of items_id_seq, and the number of uuids drawn
    now,        \* wall clock, in days
    pc,         \* per connection: "idle" | "gate" | "route" | handler step | "done"
    req,        \* per connection: the request in flight
    ctx,        \* per connection: what the gate attached and the handler's locals
    resp,       \* per connection: the response
    jar,        \* the browser's cookie jar (the token cookie)
    tablePage,  \* the state of the table page (app/table/page.tsx)
    todoPage,   \* the state of the todo page (app/todo/page.tsx)
    calendarPage \* the state of the calendar page (app/calendar/page.tsx)

vars == <<users, items, todos, events, seqs, now, pc, req, ctx, resp, jar,
          tablePage, todoPage, calendarPage>>
store == <<users, items, todos, events, seqs>>
pages == <<tablePage, todoPage, calendarPage>>

(***************************************************************************)
(* Bounds of the model.                                                    *)
(***************************************************************************)
MaxTime == 8        \* the clock runs 0..MaxTime

\* lib/auth.ts: setExpirationTime('7d')
TokenTTL == 7

\* the connections a browser holds open, and the one a strictly sequential client uses
Slots == {1, 2}
SeqSlots == {1}

(***************************************************************************)
(* Strings: decimal conversion as JavaScript does it.                      *)
(***************************************************************************)
Digits == <<"0", "1", "2", "3", "4", "5", "6", "7", "8", "9">>

IsDigit(c) == \E d \in 1..10 : Digits[d] = c

DigitVal(c) == (CHOOSE d \in 1..10 : Digits[d] = c) - 1

RECURSIVE NumberToString(_)
\* Number.prototype.toString() of a non-negative integer
NumberToString(n) == IF n < 10 THEN <<Digits[n + 1]>>
               ELSE NumberToString(n \div 10) \o <<Digits[(n % 10) + 1]>>

RECURSIVE DigitRun(_, _)
\* the value of the longest run of digits that starts s, continuing from acc
DigitRun(s, acc) ==
    IF s = <<>> \/ ~IsDigit(Head(s)) THEN acc
    ELSE DigitRun(Tail(s), acc * 10 + DigitVal(Head(s)))

\* parseInt(s, 10): an optional sign, then the leading digits; NaN without any
ParseInt(s) ==
    LET neg  == s # <<>> /\ Head(s) = "-"
        body == IF neg THEN Tail(s) ELSE s
    IN IF body = <<>> \/ ~IsDigit(Head(body)) THEN [nan |-> TRUE, val |-> 0]
       ELSE [nan |-> FALSE,
             val |-> IF neg THEN 0 - DigitRun(body, 0) ELSE DigitRun(body, 0)]

\* String.prototype.startsWith
StartsWith(p, q) == Len(q) <= Len(p) /\ SubSeq(p, 1, Len(q)) = q

\* String(k) of an integer
IntToString(k) == IF k < 0 THEN <<"-">> \o NumberToString(0 - k) ELSE NumberToString(k)

\* the characters of the model's strings in collation order; a string column
\* taken whole holds one of them
Alphabet == <<" ", "-", "0", "1", "2", "3", "4", "5", "6", "7", "8", "9",
              "A", "B", "K", "a", "b", "c", "k", "m", "n", "s", "t", "x", "z">>

Rank(c) == CHOOSE i \in 1..Len(Alphabet) : Alphabet[i] = c

\* toLowerCase of one character
Lower(c) == CASE c = "A" -> "a" [] c = "B" -> "b" [] c = "K" -> "k" [] OTHER -> c

LowerAll(x) == [i \in 1..Len(x) |-> Lower(x[i])]

\* contains, mode: 'insensitive'
ContainsInsensitive(hay, needle) ==
    \E i \in 0..(Len(hay) - Len(needle)) :
        SubSeq(LowerAll(hay), i + 1, i + Len(needle)) = LowerAll(needle)

RECURSIVE LexLe(_, _)
\* a <= b for strings given by their characters
LexLe(a, b) ==
    IF a = <<>> THEN TRUE
    ELSE IF b = <<>> THEN FALSE
    ELSE IF Head(a) = Head(b) THEN LexLe(Tail(a), Tail(b))
    ELSE Rank(Head(a)) < Rank(Head(b))

RECURSIVE TrimStart(_)
TrimStart(x) == IF x # <<>> /\ Head(x) = " " THEN TrimStart(Tail(x)) ELSE x

RECURSIVE TrimEnd(_)
TrimEnd(x) ==
    IF x # <<>> /\ x[Len(x)] = " " THEN TrimEnd(SubSeq(x, 1, Len(x) - 1)) ELSE x

\* String.prototype.trim of a string given by its characters
TrimChars(x) == TrimEnd(TrimStart(x))

CeilDivTruncating(a, b) ==
    IF b = 0 THEN [finite |-> FALSE, n |-> 0] ELSE [finite |-> TRUE, n |-> a \div b]

\* Math.ceil(a / b) for a >= 0: not finite when b is 0
CeilDiv(a, b) ==
    IF b = 0 THEN [finite |-> FALSE, n |-> 0]
    ELSE IF b > 0 THEN [finite |-> TRUE, n |-> (a + b - 1) \div b]
    ELSE [finite |-> TRUE, n |-> 0 - (a \div (0 - b))]

(***************************************************************************)
(* Tokens and cookies.  A cookie value is a compact JWT (its claims and    *)
(* whether its signature is made with the server's secret), some other     *)
(* text, the empty string, or absent.  forUser is the user the token was   *)
(* issued for (history, not read by the code).                             *)
(***************************************************************************)
NoCookie == [kind |-> "absent", userId |-> <<>>, iat |-> 0, exp |-> 0,
             sig |-> "none", forUser |-> 0]
EmptyCookie == [NoCookie EXCEPT !.kind = "empty"]
\* String(aPromise), what a Promise becomes when it is written as a cookie value
PromiseText == [NoCookie EXCEPT !.kind = "[object Promise]"]

\* generateToken, awaited: SignJWT({userId}).setIssuedAt().setExpirationTime('7d')
GenerateToken(u, t) ==
    [kind |-> "jwt", userId |-> NumberToString(u), iat |-> t, exp |-> t + TokenTTL,
     sig |-> "secret", forUser |-> u]

\* a token signed with another key
ForgedToken(u, t) == [GenerateToken(u, t) EXCEPT !.sig = "other"]

NoPayload == [ok |-> FALSE, userId |-> <<>>]

VerifyTokenNoExpiry(c, t) ==
    IF c.kind = "jwt" /\ c.sig = "secret"
    THEN [ok |-> TRUE, userId |-> c.userId] ELSE NoPayload

\* verifyToken, awaited: jwtVerify checks the format, the HS256 signature and
\* exp (expired when exp <= now); any failure is null
VerifyToken(c, t) ==
    IF c.kind = "jwt" /\ c.sig = "secret" /\ t < c.exp
    THEN [ok |-> TRUE, userId |-> c.userId] ELSE NoPayload

\* request.cookies.get('token')?.value is truthy
HasTokenValue(c) == c.kind \notin {"absent", "empty"}


(***************************************************************************)
(* The seeded store (scripts/seed.ts, schema.prisma).                      *)
(***************************************************************************)
UserIds == {1, 2}

\* bcrypt: a hash remembers the password it was made from
Hash(pw) == [of |-> pw]

SeedUsers ==
    { [id |-> 1, username |-> "admin", password |-> Hash("pwAdmin"), role |-> "ADMIN",
       updatedAt |-> 0],
      [id |-> 2, username |-> "user",  password |-> Hash("pwUser"),  role |-> "USER",
       updatedAt |-> 0] }

NoUser == [id |-> 0, username |-> "", password |-> Hash(""), role |-> "", updatedAt |-> 0]

\* prisma.user.findUnique({ where: { id } })
FindUserById(us, id) ==
    IF \E u \in us : u.id = id THEN CHOOSE u \in us : u.id = id ELSE NoUser

\* prisma.user.findUnique({ where: { username } })
FindUserByName(us, name) ==
    IF \E u \in us : u.username = name
    THEN CHOOSE u \in us : u.username = name ELSE NoUser

\* a DateTime? column: null, or the instant t
NoEnd == [set |-> FALSE, t |-> 0]
EndAt(t) == [set |-> TRUE, t |-> t]

\* a String? column: null, or the string v
NoText == [null |-> TRUE, v |-> ""]
TextOf(v) == [null |-> FALSE, v |-> v]

\* enum DeliveryMethod, enum ProgressStatus, enum TodoPriority, in declaration order
DeliveryMethods  == <<"DIRECT", "COURIER">>
ProgressStatuses == <<"IN_PROGRESS", "COMPLETED", "UNCONFIRMED">>
TodoPriorities   == <<"HIGH", "MEDIUM", "LOW">>

\* two rows of createMany: one store, two statuses
SeedItems ==
    { [id |-> 1, storeName |-> "A", itemName |-> <<"K", "b">>, quantity |-> 75,
       specification |-> "s", deliveryMethod |-> "COURIER", notes |-> TextOf("n"),
       progressStatus |-> "UNCONFIRMED", createdAt |-> 0, updatedAt |-> 0],
      [id |-> 2, storeName |-> "A", itemName |-> <<"m">>, quantity |-> 30,
       specification |-> "s", deliveryMethod |-> "DIRECT", notes |-> NoText,
       progressStatus |-> "IN_PROGRESS", createdAt |-> 0, updatedAt |-> 0] }

\* a todo of user 1 and one without a user (userId null is 0); text is the
\* sequence of its characters
SeedTodos ==
    { [id |-> <<"t", "1">>, userId |-> 1, text |-> <<"a">>, completed |-> FALSE,
       priority |-> "HIGH", deadline |-> NoEnd, createdAt |-> 0, updatedAt |-> 0],
      [id |-> <<"t", "2">>, userId |-> 0, text |-> <<"b">>, completed |-> FALSE,
       priority |-> "LOW", deadline |-> NoEnd, createdAt |-> 0, updatedAt |-> 0] }

\* two events made with POST /api/events, one by each user (user 2 made e2 while
\* its role allowed the POST; roles are changed in the database)
SeedEvents ==
    { [id |-> <<"e", "1">>, userId |-> 1, title |-> "a", start |-> 1, end |-> EndAt(2),
       allDay |-> TRUE, color |-> "", description |-> ""],
      [id |-> <<"e", "2">>, userId |-> 2, title |-> "b", start |-> 2, end |-> NoEnd,
       allDay |-> TRUE, color |-> "", description |-> ""] }

NoEvent == [id |-> <<>>, userId |-> 0, title |-> "", start |-> 0, end |-> NoEnd,
            allDay |-> FALSE, color |-> "", description |-> ""]

\* prisma.calendarEvent.findUnique({ where: { id } })
FindEvent(es, id) ==
    IF \E e \in es : e.id = id THEN CHOOSE e \in es : e.id = id ELSE NoEvent

(***************************************************************************)
(* Pathnames and the routes of the app directory.                          *)
(***************************************************************************)
PathLogin    == <<"/api", "/auth", "/login">>
PathLogout   == <<"/api", "/auth", "/logout">>
PathMe       == <<"/api", "/auth", "/me">>
PathUserData == <<"/api", "/internal", "/user-data">>
PathItems    == <<"/api", "/items">>
PathTodos    == <<"/api", "/todos">>
PathEvents   == <<"/api", "/events">>
PathDashboard == <<"/api", "/dashboard">>

ItemPath(id)  == PathItems \o <<"/">> \o id
TodoPath(id)  == PathTodos \o <<"/">> \o id
EventPath(id) == PathEvents \o <<"/">> \o id

\* the atoms that begin with a slash
SlashAtoms == {"/api", "/auth", "/login", "/logout", "/me", "/internal",
               "/user-data", "/items", "/todos", "/events", "/dashboard", "/extra", "/"}

\* the [id] segment of a path under base, <<>> when the path is not base/<segment>
Param(p, base) ==
    IF /\ Len(p) > Len(base) + 1
       /\ SubSeq(p, 1, Len(base) + 1) = base \o <<"/">>
       /\ \A i \in (Len(base) + 2)..Len(p) : p[i] \notin SlashAtoms
    THEN SubSeq(p, Len(base) + 2, Len(p)) ELSE <<>>

\* the route file that serves a pathname ("" when there is none)
Route(p) ==
    CASE p = PathLogin    -> "auth/login"
      [] p = PathLogout   -> "auth/logout"
      [] p = PathMe       -> "auth/me"
      [] p = PathUserData -> "internal/user-data"
      [] p = PathItems    -> "items"
      [] p = PathTodos    -> "todos"
      [] p = PathEvents   -> "events"
      [] p = PathDashboard -> "dashboard"
      [] Param(p, PathItems) # <<>>  -> "items/[id]"
      [] Param(p, PathTodos) # <<>>  -> "todos/[id]"
      [] Param(p, PathEvents) # <<>> -> "events/[id]"
      [] OTHER -> ""

\* the methods each route file exports
Exports(route) ==
    CASE route = "auth/login"   -> {"POST"}
      [] route = "auth/logout"  -> {"POST"}
      [] route = "auth/me"      -> {"GET"}
      [] route = "internal/user-data" -> {"GET"}
      [] route = "todos"        -> {"GET", "PUT", "DELETE"}
      [] route = "items"        -> {"GET", "POST"}
      [] route = "items/[id]"   -> {"PUT", "DELETE"}
      [] route = "todos/[id]"   -> {"GET", "PUT", "DELETE"}
      [] route = "events"       -> {"GET", "POST"}
      [] route = "events/[id]"  -> {"GET", "PUT", "PATCH", "DELETE"}
      [] route = "dashboard"    -> {"GET"}
      [] OTHER -> {}

(***************************************************************************)
(* JSON values of a request body, and what JavaScript makes of them.       *)
(***************************************************************************)
\* s is a string taken whole, cs a string given by its characters (<<>> when
\* the value is s), n a number, b a boolean
Undef      == [t |-> "undef", s |-> "", cs |-> <<>>, n |-> 0, b |-> FALSE]
Null       == [Undef EXCEPT !.t = "null"]
Str(x)     == [Undef EXCEPT !.t = "str", !.s = x]
Num(k)     == [Undef EXCEPT !.t = "num", !.n = k]
Bool(v)    == [Undef EXCEPT !.t = "bool", !.b = v]
\* the string whose characters are chars
Chars(chars) == [Undef EXCEPT !.t = "str", !.cs = chars]
\* a string that is the ISO form of instant k
DateStr(k) == [Undef EXCEPT !.t = "date", !.n = k]

Truthy(j) ==
    CASE j.t = "str"  -> j.s # "" \/ j.cs # <<>>
      [] j.t = "num"  -> j.n # 0
      [] j.t = "bool" -> j.b
      [] j.t = "date" -> TRUE
      [] OTHER        -> FALSE

\* new Date(j): an instant, or Invalid Date (getTime() is NaN)
ToDate(j) ==
    CASE j.t = "date" -> [nan |-> FALSE, t |-> j.n]
      [] j.t = "num"  -> [nan |-> FALSE, t |-> j.n]
      [] j.t = "null" -> [nan |-> FALSE, t |-> 0]
      [] j.t = "bool" -> [nan |-> FALSE, t |-> IF j.b THEN 1 ELSE 0]
      [] OTHER        -> [nan |-> TRUE, t |-> 0]

\* a request body: its syntax ("json" an object, "null" the literal null,
\* "malformed" text that is not JSON) and the object's fields
NoBody ==
    [syntax |-> "malformed", username |-> Undef, password |-> Undef, title |-> Undef,
     start |-> Undef, end |-> Undef, allDay |-> Undef, color |-> Undef,
     description |-> Undef,
     storeName |-> Undef, itemName |-> Undef, quantity |-> Undef,
     specification |-> Undef, deliveryMethod |-> Undef, progressStatus |-> Undef,
     notes |-> Undef,
     text |-> Undef, completed |-> Undef, priority |-> Undef, deadline |-> Undef,
     userId |-> Undef]
EmptyObject == [NoBody EXCEPT !.syntax = "json"]
NullBody    == [NoBody EXCEPT !.syntax = "null"]

\* a query parameter the URL does not carry, and one it carries with value v
\* (the sequence of its characters, or an atom)
\* page, limit, userId, itemName and search are given by their characters
NoParam == [has |-> FALSE, v |-> <<>>]
\* sortBy, sortOrder, storeName, status, completed and priority are taken whole
NoAtom == [has |-> FALSE, v |-> ""]
QueryParam(v) == [has |-> TRUE, v |-> v]

NoQuery ==
    [start |-> Undef, end |-> Undef,
     page |-> NoParam, limit |-> NoParam, sortBy |-> NoAtom, sortOrder |-> NoAtom,
     storeName |-> NoAtom, itemName |-> NoParam, status |-> NoAtom,
     userId |-> NoParam, completed |-> NoAtom, priority |-> NoAtom,
     search |-> NoParam]

Request(m, p, c) ==
    [method |-> m, path |-> p, cookie |-> c, xuid |-> <<>>, xrole |-> "", body |-> NoBody,
     query |-> NoQuery, jarUser |-> 0, jarAt |-> 0]

NoRequest == Request("", <<>>, NoCookie)

\* gated, gateAt, fault, handler and wrote are history; hdrUid and hdrRole are the
\* x-user-id and x-user-role headers the handler receives
NoCtx == [gated |-> FALSE, gateAt |-> 0, fault |-> "", hdrUid |-> <<>>, hdrRole |-> "",
          handler |-> "", authUid |-> 0, existing |-> NoEvent, wrote |-> FALSE]

\* what the `error` of a response body holds in each NODE_ENV: "" (no error
\* body), "generic" (a fixed text) or "message" (the caught error's message)
NoError == [production |-> "", development |-> ""]

ErrorBody(policy) ==
    CASE policy = "error.message" -> [production |-> "message", development |-> "message"]
      [] policy = "isDev"         -> [production |-> "generic", development |-> "message"]
      [] OTHER                    -> [production |-> "generic", development |-> "generic"]

\* the body of the dashboard: the five groupings as sets of rows, and
\* overallStats
NoDashboard ==
    [storeData |-> {}, deliveryData |-> {}, progressStatusCounts |-> {},
     unconfirmedByStore |-> {}, inProgressByStore |-> {},
     overallStats |-> [totalItems |-> 0, totalUnconfirmed |-> 0, totalInProgress |-> 0,
                       totalCompleted |-> 0]]

\* rows is the list a list endpoint returns, in order; items the item (or the
\* set of rows) the body carries; totalPages is finite or not (Infinity and NaN
\* are null in JSON)
NoResp == [status |-> 0, by |-> "", setCookie |-> NoCookie, clear |-> FALSE,
           error |-> NoError, dashboard |-> NoDashboard,
           events |-> {}, items |-> {}, rows |-> <<>>, totalCount |-> 0,
           totalPages |-> [finite |-> TRUE, n |-> 0], currentPage |-> 0]

Response(st, who) == [NoResp EXCEPT !.status = st, !.by = who]

\* a handler's answer st whose catch block words its 500 by policy
Failed(st, policy) ==
    [Response(st, "handler") EXCEPT
        !.error = IF st = 500 THEN ErrorBody(policy) ELSE NoError]

(***************************************************************************)
(* GET /api/internal/user-data?userId=...                                  *)
(***************************************************************************)
\* a lookup answered from the roles the users were created with
UserDataGETCached(us, userId, dbFails) ==
    IF userId = <<>> THEN [status |-> 400, role |-> ""]
    ELSE LET id == ParseInt(userId)
             u  == FindUserById(SeedUsers, id.val)
         IN IF dbFails \/ id.nan THEN [status |-> 500, role |-> ""]
            ELSE IF FindUserById(us, id.val) = NoUser THEN [status |-> 404, role |-> ""]
            ELSE [status |-> 200, role |-> u.role]

UserDataGET(us, userId, dbFails) ==
    IF userId = <<>> THEN [status |-> 400, role |-> ""]
    ELSE LET id == ParseInt(userId)
             u  == FindUserById(us, id.val)
         IN IF dbFails \/ id.nan THEN [status |-> 500, role |-> ""]
            ELSE IF u = NoUser THEN [status |-> 404, role |-> ""]
            ELSE [status |-> 200, role |-> u.role]

(***************************************************************************)
(* The request gate (middleware.ts).                                       *)
(***************************************************************************)
ProtectedMethodsWithoutDelete == {"POST", "PUT", "PATCH"}

PROTECTED_METHODS == {"POST", "PUT", "PATCH", "DELETE"}

publicPaths == {PathLogin, PathLogout, PathMe, PathUserData}

IsPublicExact(p) == p \in publicPaths

\* publicPaths.some(path => pathname.startsWith(path))
IsPublic(p) == \E q \in publicPaths : StartsWith(p, q)

\* pathname.startsWith('/api/')
IsApiPath(p) == Len(p) >= 2 /\ p[1] = "/api" /\ p[2] \in SlashAtoms

\* what the role lookup can come to: the endpoint's answer, the endpoint's answer
\* when its query fails, a fetch that throws, a 200 whose body carries no role
LookupFaults == {"none", "db", "throw", "norole"}

Reject(st, clr) == [next |-> FALSE, status |-> st, clear |-> clr,
                    hdrUid |-> <<>>, hdrRole |-> ""]
Forward(uid, role) == [next |-> TRUE, status |-> 0, clear |-> FALSE,
                       hdrUid |-> uid, hdrRole |-> role]

ForwardKeepingClientHeader(r, uid, role) ==
    Forward(IF r.xuid # <<>> THEN r.xuid ELSE uid, role)

\* new Headers(request.headers) with x-user-id and x-user-role set
ForwardWithIdentity(r, uid, role) == Forward(uid, role)

RoleGateNoLookupCheck(r, lookup, fault, uid) ==
    IF r.method \in PROTECTED_METHODS /\ lookup.role = "USER" THEN Reject(403, FALSE)
    ELSE ForwardWithIdentity(r, uid, lookup.role)

\* lines 29-60: the lookup's outcome, then the role check, then the forward
RoleGate(r, lookup, fault, uid) ==
    IF fault = "throw" THEN Reject(500, FALSE)
    ELSE IF lookup.status # 200 THEN Reject(500, FALSE)
    ELSE IF fault = "norole" \/ lookup.role = "" THEN Reject(403, FALSE)
    ELSE IF r.method \in PROTECTED_METHODS /\ lookup.role = "USER"
         THEN Reject(403, FALSE)
    ELSE ForwardWithIdentity(r, uid, lookup.role)

middleware(r, t, us, fault) ==
    IF IsPublic(r.path) THEN Forward(r.xuid, r.xrole)
    ELSE IF IsApiPath(r.path) THEN
        IF ~HasTokenValue(r.cookie) THEN Reject(401, FALSE)
        ELSE LET decodedToken == VerifyToken(r.cookie, t)
             IN IF ~decodedToken.ok \/ decodedToken.userId = <<>>
                THEN Reject(401, TRUE)
                ELSE RoleGate(r, UserDataGET(us, decodedToken.userId, fault = "db"),
                              fault, decodedToken.userId)
    ELSE Forward(r.xuid, r.xrole)

\* getAuthenticatedUserId: parseInt of the x-user-id header, null (0) without one
getAuthenticatedUserId(c) ==
    IF c.hdrUid # <<>>
    THEN LET id == ParseInt(c.hdrUid) IN IF id.nan THEN 0 ELSE id.val
    ELSE 0

(***************************************************************************)
(* The pages, as first rendered.  `running` names the async callback that  *)
(* is waiting for its fetches, `fetches` the connections it waits on, in   *)
(* the order the fetches were made; fetchItemsDue tells that the effect    *)
(* that calls fetchItems has yet to run.  No page is open at first.        *)
(***************************************************************************)
\* what the page shows the user: nothing (null), or a message of a kind; `states`
\* tells which of the counts the message states
NoMessage == [kind |-> "", failed |-> 0, succeeded |-> 0, states |-> {}]

\* resetForm
EmptyFormData ==
    [EmptyObject EXCEPT !.storeName = Str(""), !.itemName = Chars(<<>>),
                        !.quantity = Num(0), !.specification = Str(""),
                        !.deliveryMethod = Str("DIRECT"), !.notes = Str(""),
                        !.progressStatus = Str("UNCONFIRMED")]

\* TablePage's useState calls; editingItem and itemToDelete hold the item's id
\* (0 for null); currentSelectedItemIds, results and savingSequentially are the
\* locals of the running callback (savingSequentially is the isSequentialEditMode
\* that handleSave was created with)
TablePageInit ==
    [mounted |-> FALSE,
     items |-> <<>>, isLoading |-> FALSE, globalError |-> NoMessage,
     currentPage |-> 1, itemsPerPage |-> 10, totalDbItems |-> 0, serverTotalPages |-> 0,
     isAddEditDialogOpen |-> FALSE, editingItem |-> 0, formData |-> EmptyFormData,
     selectedItemIds |-> <<>>,
     isSingleDeleteConfirmOpen |-> FALSE, itemToDelete |-> 0,
     isBatchDeleteConfirmOpen |-> FALSE,
     isSequentialEditMode |-> FALSE, sequentialEditQueue |-> <<>>,
     currentSequentialEditIndex |-> 0,
     fetchItemsDue |-> FALSE,
     running |-> "", fetches |-> <<>>, currentSelectedItemIds |-> <<>>, results |-> <<>>,
     savingSequentially |-> FALSE]

\* the toast that asks for a confirmation: none, or one of a kind about ids
NoConfirm == [kind |-> "", ids |-> <<>>]

\* initialFormData of the todo page
InitialTodoFormData ==
    [EmptyObject EXCEPT !.text = Chars(<<>>), !.priority = Str("MEDIUM"),
                        !.completed = Bool(FALSE), !.userId = Null, !.deadline = Null]

\* TodoPage's useState calls; selectedTodoIds is a Set, kept in insertion order;
\* `confirm` is the toast waiting for its action button, `toast` the last other
\* toast; listFetch is the connection of fetchTodos's fetch (0: none)
TodoPageInit ==
    [mounted |-> FALSE,
     todos |-> <<>>, loading |-> TRUE, error |-> "",
     currentPage |-> 1, totalPages |-> 1, totalCount |-> 0,
     filters |-> [completed |-> "all", priority |-> "all", search |-> <<>>,
                  userId |-> "all"],
     isCreateDialogOpen |-> FALSE, isEditDialogOpen |-> FALSE, editingTodo |-> <<>>,
     formData |-> InitialTodoFormData,
     selectedTodoIds |-> <<>>,
     toast |-> NoMessage, confirm |-> NoConfirm,
     fetchTodosDue |-> FALSE, listFetch |-> 0,
     running |-> "", fetches |-> <<>>, ids |-> <<>>, promises |-> <<>>]

\* selectedEventData: null, or the data the modal was opened with
NoSelectedEventData == [null |-> TRUE, data |-> NoEvent]

\* CalendarPage's useState calls; `form` is the state of the EventModal that is
\* rendered while the modal is open; `confirm` is window.confirm's dialog
CalendarPageInit ==
    [mounted |-> FALSE, events |-> {}, isLoading |-> TRUE,
     isModalOpen |-> FALSE, modalMode |-> "create",
     selectedEventData |-> NoSelectedEventData, form |-> EmptyObject,
     toast |-> NoMessage, confirm |-> NoConfirm,
     fetchEventsDue |-> FALSE, listFetch |-> 0,
     running |-> "", fetches |-> <<>>]

(***************************************************************************)
(* The state after construction: the seeded store, idle connections.       *)
(***************************************************************************)
EmptyJar == [cookie |-> NoCookie, user |-> 0, at |-> 0]

Init ==
    /\ users = SeedUsers
    /\ items = SeedItems
    /\ todos = SeedTodos
    /\ events = SeedEvents
    /\ seqs = [item |-> Cardinality(SeedItems), uuid |-> 0]
    /\ now = 0
    /\ pc = [s \in Slots |-> "idle"]
    /\ req = [s \in Slots |-> NoRequest]
    /\ ctx = [s \in Slots |-> NoCtx]
    /\ resp = [s \in Slots |-> NoResp]
    /\ jar = EmptyJar
    /\ tablePage = TablePageInit
    /\ todoPage = TodoPageInit
    /\ calendarPage = CalendarPageInit

(***************************************************************************)
(* The client and the environment.                                         *)
(***************************************************************************)
\* the client sends a request of R on an idle connection
Send(s, R) ==
    /\ pc[s] = "idle"
    /\ \E r \in R : req' = [req EXCEPT ![s] = r]
    /\ pc' = [pc EXCEPT ![s] = "gate"]
    /\ UNCHANGED <<store, now, ctx, resp, jar, pages>>

\* the browser takes the response: Set-Cookie replaces the jar's token cookie
\* (maxAge 0 removes it)
Receive(s) ==
    /\ pc[s] = "done"
    /\ pc' = [pc EXCEPT ![s] = "idle"]
    /\ jar' = IF resp[s].clear THEN EmptyJar
              ELSE IF resp[s].setCookie # NoCookie
                   THEN [cookie |-> resp[s].setCookie, user |-> ctx[s].authUid,
                         at |-> now]
                   ELSE jar
    /\ req' = [req EXCEPT ![s] = NoRequest]
    /\ ctx' = [ctx EXCEPT ![s] = NoCtx]
    /\ resp' = [resp EXCEPT ![s] = NoResp]
    /\ UNCHANGED <<store, now, pages>>

\* a day passes
Tick ==
    /\ now < MaxTime
    /\ now' = now + 1
    /\ UNCHANGED <<store, pc, req, ctx, resp, jar, pages>>

\* a user row is removed in the database; schema.prisma: onDelete: Cascade
DeleteUser(u) ==
    /\ \E row \in users : row.id = u
    /\ users' = {row \in users : row.id # u}
    /\ todos' = {row \in todos : row.userId # u}
    /\ events' = {row \in events : row.userId # u}
    /\ UNCHANGED <<items, seqs, now, pc, req, ctx, resp, jar, pages>>

\* a user's role is changed in the database (no endpoint writes it); @updatedAt
\* stamps the row
UpdateRole(u, role) ==
    /\ \E row \in users : row.id = u /\ row.role # role
    /\ users' = {IF row.id = u THEN [row EXCEPT !.role = role, !.updatedAt = now] ELSE row :
                    row \in users}
    /\ UNCHANGED <<items, todos, events, seqs, now, pc, req, ctx, resp, jar, pages>>

(***************************************************************************)
(* The gate runs on every /api request (config.matcher).                   *)
(***************************************************************************)
Gate(s) ==
    /\ pc[s] = "gate"
    /\ \E fault \in LookupFaults :
         LET d == middleware(req[s], now, users, fault)
         IN /\ ctx' = [ctx EXCEPT ![s].gated = TRUE, ![s].gateAt = now,
                                  ![s].fault = fault,
                                  ![s].hdrUid = d.hdrUid, ![s].hdrRole = d.hdrRole]
            /\ IF d.next
               THEN pc' = [pc EXCEPT ![s] = "route"] /\ UNCHANGED resp
               ELSE /\ pc' = [pc EXCEPT ![s] = "done"]
                    /\ resp' = [resp EXCEPT ![s] =
                                  [Response(d.status, "gate") EXCEPT
                                      !.clear = d.clear,
                                      !.error = IF d.status = 500 THEN ErrorBody("fixed")
                                                ELSE NoError]]
    /\ UNCHANGED <<store, now, req, jar, pages>>

(***************************************************************************)
(* Routing and the handlers.                                               *)
(***************************************************************************)
Routed(s, route, methods) ==
    /\ pc[s] = "route"
    /\ Route(req[s].path) = route
    /\ req[s].method \in methods

\* handler h answers on connection s with response r
Answer(s, h, r) ==
    /\ pc' = [pc EXCEPT ![s] = "done"]
    /\ resp' = [resp EXCEPT ![s] = r]
    /\ ctx' = [ctx EXCEPT ![s].handler = h]

\* no route file serves the path (404), or it does not export the method (405)
NoRoute(s) ==
    /\ pc[s] = "route"
    /\ req[s].method \notin Exports(Route(req[s].path))
    /\ pc' = [pc EXCEPT ![s] = "done"]
    /\ resp' = [resp EXCEPT ![s] =
                  Response(IF Route(req[s].path) = "" THEN 404 ELSE 405, "router")]
    /\ UNCHANGED <<store, now, req, ctx, jar, pages>>

\* what `!token || !verifyToken(token)` comes to: verifyToken is async and is not
\* awaited, and a Promise is truthy
ItemAuthFails(r) == ~HasTokenValue(r.cookie) \/ FALSE

(***************************************************************************)
(* Items: /api/items and /api/items/[id].  In a body storeName,            *)
(* specification and notes are strings taken whole, itemName is given by   *)
(* its characters.                                                         *)
(***************************************************************************)
MaxItemId == 4      \* items_id_seq stops here

ItemColumns == {"id", "storeName", "itemName", "quantity", "specification",
                "deliveryMethod", "notes", "createdAt", "updatedAt", "progressStatus"}

EnumRank(enum, v) == CHOOSE i \in 1..Len(enum) : enum[i] = v

InEnum(enum, j) == j.t = "str" /\ \E i \in 1..Len(enum) : enum[i] = j.s

\* a <= b on column col, as ORDER BY col ASC compares (NULLs are largest)
ItemLe(a, b, col) ==
    CASE col \in {"id", "quantity", "createdAt", "updatedAt"} -> a[col] <= b[col]
      [] col \in {"storeName", "specification"} -> Rank(a[col]) <= Rank(b[col])
      [] col = "itemName" -> LexLe(a.itemName, b.itemName)
      [] col = "deliveryMethod" ->
            EnumRank(DeliveryMethods, a[col]) <= EnumRank(DeliveryMethods, b[col])
      [] col = "progressStatus" ->
            EnumRank(ProgressStatuses, a[col]) <= EnumRank(ProgressStatuses, b[col])
      [] col = "notes" ->
            b.notes.null \/ (~a.notes.null /\ Rank(a.notes.v) <= Rank(b.notes.v))

\* the orders in which the rows of S can come back
Arrangements(S) ==
    {f \in [1..Cardinality(S) -> S] : \A i, j \in 1..Cardinality(S) : i # j => f[i] # f[j]}

\* orderBy: { [sortBy]: sortOrder }: rows that tie come in any order.  The lists
\* are built from their first row on: a first row is one that no row precedes
RECURSIVE ItemsOrdered(_, _, _)
ItemsOrdered(S, sortBy, sortOrder) ==
    IF S = {} THEN {<<>>}
    ELSE LET first == {a \in S : \A b \in S : IF sortOrder = "asc" THEN ItemLe(a, b, sortBy)
                                                ELSE ItemLe(b, a, sortBy)}
         IN UNION {{<<a>> \o rest : rest \in ItemsOrdered(S \ {a}, sortBy, sortOrder)} :
                   a \in first}

\* skip and take on an ordered list; a negative take counts from the end
Window(list, skip, take) ==
    IF take >= 0
    THEN SubSeq(list, skip + 1, IF skip + take < Len(list) THEN skip + take ELSE Len(list))
    ELSE SubSeq(list, IF Len(list) - skip + take + 1 > 1
                      THEN Len(list) - skip + take + 1 ELSE 1,
                Len(list) - skip)

\* searchParams.get(k) || d, for a parameter given by its characters
CharsOr(p, d) == IF p.has /\ p.v # <<>> THEN p.v ELSE d

\* searchParams.get(k) || d, for a parameter taken whole
AtomOr(p, d) == IF p.has /\ p.v # "" THEN p.v ELSE d

\* searchParams.get('sortOrder') === 'asc' ? 'asc' : 'desc'
ItemSortOrder(q) == IF q.sortOrder.has /\ q.sortOrder.v = "asc" THEN "asc" ELSE "desc"

\* whereClause: storeName and itemName only
ItemWhere(row, q) ==
    /\ (q.storeName.has /\ q.storeName.v # "") => row.storeName = q.storeName.v
    /\ (q.itemName.has /\ q.itemName.v # <<>>)
          => ContainsInsensitive(row.itemName, q.itemName.v)

\* GET /api/items, up to findMany.  A skip that is negative or NaN, a take that
\* is NaN and an orderBy on no column make Prisma throw: 500
ItemsGET(s) ==
    /\ Routed(s, "items", {"GET"})
    /\ LET q      == req[s].query
           page   == ParseInt(CharsOr(q.page, <<"1">>))
           limit  == ParseInt(CharsOr(q.limit, <<"1", "0">>))
           sortBy == AtomOr(q.sortBy, "createdAt")
           skip   == (page.val - 1) * limit.val
       IN IF page.nan \/ limit.nan \/ skip < 0 \/ sortBy \notin ItemColumns
          THEN Answer(s, "items:GET", Failed(500, "error.message"))
          ELSE \E ordered \in ItemsOrdered({row \in items : ItemWhere(row, q)},
                                           sortBy, ItemSortOrder(q)) :
                 /\ pc' = [pc EXCEPT ![s] = "itemsCount"]
                 /\ resp' = [resp EXCEPT ![s] =
                               [NoResp EXCEPT !.rows = Window(ordered, skip, limit.val),
                                              !.currentPage = page.val]]
                 /\ ctx' = [ctx EXCEPT ![s].handler = "items:GET"]
    /\ UNCHANGED <<store, now, req, jar, pages>>

\* GET /api/items from prisma.item.count on
ItemsGETCount(s) ==
    /\ pc[s] = "itemsCount"
    /\ LET q          == req[s].query
           limit      == ParseInt(CharsOr(q.limit, <<"1", "0">>))
           totalItems == Cardinality({row \in items : ItemWhere(row, q)})
       IN resp' = [resp EXCEPT ![s].status = 200, ![s].by = "handler",
                               ![s].items = {resp[s].rows[i] : i \in 1..Len(resp[s].rows)},
                               ![s].totalCount = totalItems,
                               ![s].totalPages = CeilDiv(totalItems, limit.val)]
    /\ pc' = [pc EXCEPT ![s] = "done"]
    /\ UNCHANGED <<store, now, req, ctx, jar, pages>>

\* parseInt(String(j), 10) of a JSON value
QuantityOf(j) ==
    CASE j.t = "num" -> ParseInt(IntToString(j.n))
      [] j.t = "str" -> ParseInt(j.cs)
      [] OTHER       -> [nan |-> TRUE, val |-> 0]

\* a required String column is given a string
IsText(j) == j.t = "str"

\* prisma.item.create rejects the data (PrismaClientValidationError)
ItemCreateThrows(data) ==
    \/ ~IsText(data.storeName)
    \/ ~IsText(data.itemName)
    \/ QuantityOf(data.quantity).nan
    \/ ~IsText(data.specification)
    \/ Truthy(data.notes) /\ ~IsText(data.notes)

\* the row prisma.item.create stores
NewItem(data, id, t) ==
    [id |-> id, storeName |-> data.storeName.s, itemName |-> data.itemName.cs,
     quantity |-> QuantityOf(data.quantity).val,
     specification |-> data.specification.s,
     deliveryMethod |-> data.deliveryMethod.s,
     notes |-> IF Truthy(data.notes) THEN TextOf(data.notes.s) ELSE NoText,
     progressStatus |-> IF Truthy(data.progressStatus) THEN data.progressStatus.s
                        ELSE "UNCONFIRMED",
     createdAt |-> t, updatedAt |-> t]

\* POST /api/items
ItemPOST(s) ==
    /\ Routed(s, "items", {"POST"})
    /\ LET data == req[s].body
           st == IF data.syntax # "json" THEN 500
                 ELSE IF ~InEnum(DeliveryMethods, data.deliveryMethod) THEN 400
                 ELSE IF Truthy(data.progressStatus)
                         /\ ~InEnum(ProgressStatuses, data.progressStatus) THEN 400
                 ELSE IF ItemCreateThrows(data) THEN 500
                 ELSE 201
           item == NewItem(data, seqs.item + 1, now)
       IN IF st # 201
          THEN Answer(s, "items:POST", Failed(st, "error.message")) /\ UNCHANGED <<items, seqs>>
          ELSE /\ seqs.item < MaxItemId
               /\ items' = items \cup {item}
               /\ seqs' = [seqs EXCEPT !.item = @ + 1]
               /\ pc' = [pc EXCEPT ![s] = "done"]
               /\ resp' = [resp EXCEPT ![s] =
                             [Response(201, "handler") EXCEPT !.items = {item}]]
               /\ ctx' = [ctx EXCEPT ![s].handler = "items:POST", ![s].wrote = TRUE]
    /\ UNCHANGED <<users, todos, events, now, req, jar, pages>>

\* the catch block: Prisma's P2025 (record to delete not found) is 404, the rest 500
ItemDeleteError(code) == IF code = "P2025" THEN 404 ELSE 500

\* updatePayload, lines 50-67
ItemUpdatePayload(data) ==
    [hasStoreName |-> data.storeName.t # "undef",
     hasItemName |-> data.itemName.t # "undef",
     hasQuantity |-> data.quantity.t # "undef",
     quantity |-> QuantityOf(data.quantity).val,
     hasSpecification |-> data.specification.t # "undef",
     hasDeliveryMethod |-> data.deliveryMethod.t # "undef",
     hasProgressStatus |-> data.progressStatus.t # "undef",
     hasNotes |-> data.notes.t # "undef",
     notes |-> IF data.notes.t = "str" /\ data.notes.s # "" THEN TextOf(data.notes.s)
               ELSE NoText]

\* prisma.item.update rejects the data (PrismaClientValidationError)
ItemUpdateThrows(data) ==
    \/ data.storeName.t # "undef" /\ ~IsText(data.storeName)
    \/ data.itemName.t # "undef" /\ ~IsText(data.itemName)
    \/ data.specification.t # "undef" /\ ~IsText(data.specification)
    \/ data.deliveryMethod.t # "undef" /\ ~InEnum(DeliveryMethods, data.deliveryMethod)
    \/ data.progressStatus.t # "undef" /\ ~InEnum(ProgressStatuses, data.progressStatus)
    \/ data.notes.t \notin {"undef", "str", "null"}

\* prisma.item.update({ where: { id }, data: updatePayload }) on a row
ItemUpdated(row, data, t) ==
    LET u == ItemUpdatePayload(data)
    IN [row EXCEPT
          !.storeName = IF u.hasStoreName THEN data.storeName.s ELSE @,
          !.itemName = IF u.hasItemName THEN data.itemName.cs ELSE @,
          !.quantity = IF u.hasQuantity THEN u.quantity ELSE @,
          !.specification = IF u.hasSpecification THEN data.specification.s ELSE @,
          !.deliveryMethod = IF u.hasDeliveryMethod THEN data.deliveryMethod.s ELSE @,
          !.progressStatus = IF u.hasProgressStatus THEN data.progressStatus.s ELSE @,
          !.notes = IF u.hasNotes THEN u.notes ELSE @,
          !.updatedAt = t]

\* PUT /api/items/[id]
ItemPUT(s) ==
    /\ Routed(s, "items/[id]", {"PUT"})
    /\ LET itemId == ParseInt(Param(req[s].path, PathItems))
           data   == req[s].body
           u      == ItemUpdatePayload(data)
           q      == QuantityOf(data.quantity)
           hit    == {row \in items : row.id = itemId.val}
           st == IF ItemAuthFails(req[s]) THEN 401
                 ELSE IF itemId.nan THEN 400
                 ELSE IF data.syntax = "malformed" THEN 400
                 ELSE IF data.syntax = "null" THEN 500
                 ELSE IF u.hasQuantity /\ (q.nan \/ q.val < 0) THEN 400
                 ELSE IF ~(u.hasStoreName \/ u.hasItemName \/ u.hasQuantity
                           \/ u.hasSpecification \/ u.hasDeliveryMethod
                           \/ u.hasProgressStatus \/ u.hasNotes) THEN 400
                 ELSE IF ItemUpdateThrows(data) THEN 500
                 ELSE IF hit = {} THEN ItemDeleteError("P2025")
                 ELSE 200
       IN IF st # 200
          THEN Answer(s, "items/[id]:PUT", Failed(st, "fixed")) /\ UNCHANGED items
          ELSE LET updatedItem == ItemUpdated(CHOOSE row \in hit : TRUE, data, now)
               IN /\ items' = (items \ hit) \cup {updatedItem}
                  /\ pc' = [pc EXCEPT ![s] = "done"]
                  /\ resp' = [resp EXCEPT ![s] =
                                [Response(200, "handler") EXCEPT !.items = {updatedItem}]]
                  /\ ctx' = [ctx EXCEPT ![s].handler = "items/[id]:PUT",
                                        ![s].wrote = TRUE]
    /\ UNCHANGED <<users, todos, events, seqs, now, req, jar, pages>>

\* DELETE /api/items/[id]
ItemDELETE(s) ==
    /\ Routed(s, "items/[id]", {"DELETE"})
    /\ LET itemId == ParseInt(Param(req[s].path, PathItems))
           hit    == {row \in items : row.id = itemId.val}
       IN IF ItemAuthFails(req[s])
          THEN Answer(s, "items/[id]:DELETE", Response(401, "handler")) /\ UNCHANGED items
          ELSE IF itemId.nan
          THEN Answer(s, "items/[id]:DELETE", Response(400, "handler")) /\ UNCHANGED items
          ELSE IF hit = {}
          THEN /\ Answer(s, "items/[id]:DELETE",
                         Response(ItemDeleteError("P2025"), "handler"))
               /\ UNCHANGED items
          ELSE /\ items' = items \ hit
               /\ pc' = [pc EXCEPT ![s] = "done"]
               /\ resp' = [resp EXCEPT ![s] = Response(200, "handler")]
               /\ ctx' = [ctx EXCEPT ![s].handler = "items/[id]:DELETE",
                                     ![s].wrote = TRUE]
    /\ UNCHANGED <<users, todos, events, seqs, now, req, jar, pages>>

(***************************************************************************)
(* The dashboard: GET /api/dashboard.  Each awaited query is a step of its *)
(* own; the order of the rows of a grouping is not kept.                   *)
(***************************************************************************)
\* the sum of the quantities of a set of rows
RECURSIVE SumQuantity(_)
SumQuantity(rows) ==
    IF rows = {} THEN 0
    ELSE LET row == CHOOSE r \in rows : TRUE
         IN row.quantity + SumQuantity(rows \ {row})

\* prisma.item.groupBy({ by: [column], _count: { id: true } }) over rows
GroupCount(rows, column) ==
    {[key |-> k, count |-> Cardinality({r \in rows : r[column] = k})] :
        k \in {r[column] : r \in rows}}

\* prisma.item.count({ where: { progressStatus } })
CountStatus(rows, status) == Cardinality({r \in rows : r.progressStatus = status})

\* the queries of the handler, in the order it awaits them
DashboardQueries ==
    <<"storeDataAgg", "deliveryDataAgg", "progressStatusCountsAgg",
      "unconfirmedByStoreAgg", "inProgressByStoreAgg",
      "totalItems", "totalUnconfirmed", "totalInProgress", "totalCompleted">>

\* what comes after query q: the next query, or the response
AfterQuery(q) ==
    LET i == CHOOSE k \in 1..Len(DashboardQueries) : DashboardQueries[k] = q
    IN IF i < Len(DashboardQueries) THEN DashboardQueries[i + 1] ELSE "done"

\* GET /api/dashboard up to its first query
DashboardGET(s) ==
    /\ Routed(s, "dashboard", {"GET"})
    /\ IF ItemAuthFails(req[s])
       THEN Answer(s, "dashboard:GET", Response(401, "handler"))
       ELSE /\ pc' = [pc EXCEPT ![s] = DashboardQueries[1]]
            /\ ctx' = [ctx EXCEPT ![s].handler = "dashboard:GET"]
            /\ UNCHANGED resp
    /\ UNCHANGED <<store, now, req, jar, pages>>

\* lines 25-79: one of the five groupBy queries reads the table
DashboardGroupBy(s) ==
    /\ pc[s] \in {"storeDataAgg", "deliveryDataAgg", "progressStatusCountsAgg",
                  "unconfirmedByStoreAgg", "inProgressByStoreAgg"}
    /\ LET q == pc[s]
           d == resp[s].dashboard
       IN resp' = [resp EXCEPT ![s].dashboard =
            CASE q = "storeDataAgg" ->
                   [d EXCEPT !.storeData =
                      {[key |-> k,
                        count |-> SumQuantity({r \in items : r.storeName = k})] :
                          k \in {r.storeName : r \in items}}]
              [] q = "deliveryDataAgg" ->
                   [d EXCEPT !.deliveryData = GroupCount(items, "deliveryMethod")]
              [] q = "progressStatusCountsAgg" ->
                   [d EXCEPT !.progressStatusCounts = GroupCount(items, "progressStatus")]
              [] q = "unconfirmedByStoreAgg" ->
                   [d EXCEPT !.unconfirmedByStore =
                      GroupCount({r \in items : r.progressStatus = "UNCONFIRMED"},
                                 "storeName")]
              [] OTHER ->
                   [d EXCEPT !.inProgressByStore =
                      GroupCount({r \in items : r.progressStatus = "IN_PROGRESS"},
                                 "storeName")]]
    /\ pc' = [pc EXCEPT ![s] = AfterQuery(pc[s])]
    /\ UNCHANGED <<store, now, req, ctx, jar, pages>>

\* lines 82-101: one of the four count queries reads the table; after the last
\* the response is made
DashboardCount(s) ==
    /\ pc[s] \in {"totalItems", "totalUnconfirmed", "totalInProgress", "totalCompleted"}
    /\ LET q == pc[s]
           n == CASE q = "totalItems"       -> Cardinality(items)
                  [] q = "totalUnconfirmed" -> CountStatus(items, "UNCONFIRMED")
                  [] q = "totalInProgress"  -> CountStatus(items, "IN_PROGRESS")
                  [] OTHER                  -> CountStatus(items, "COMPLETED")
       IN resp' = [resp EXCEPT ![s].dashboard.overallStats[q] = n,
                               ![s].status = IF AfterQuery(q) = "done" THEN 200 ELSE @,
                               ![s].by = IF AfterQuery(q) = "done" THEN "handler" ELSE @]
    /\ pc' = [pc EXCEPT ![s] = AfterQuery(pc[s])]
    /\ UNCHANGED <<store, now, req, ctx, jar, pages>>

(***************************************************************************)
(* Calendar events: /api/events and /api/events/[id].                      *)
(***************************************************************************)
\* the params the router hands to the handlers of app/api/events/[id]/route.ts:
\* the dynamic segment under the name of its directory
EventRouteParams(p) == [k \in {"id"} |-> Param(p, PathEvents)]

\* const { key } = await params: undefined (<<>>) for a key params does not hold
Destructure(params, key) == IF key \in DOMAIN params THEN params[key] ELSE <<>>

\* const { eventId } = await params
EventId(p) == Destructure(EventRouteParams(p), "eventId")

\* findUnique, update and delete with where: { id: undefined } throw a
\* validation error (the unique key is missing)
WhereThrows(id) == id = <<>>

\* GET /api/events/[id]
EventGET(s) ==
    /\ Routed(s, "events/[id]", {"GET"})
    /\ LET uid   == getAuthenticatedUserId(ctx[s])
           eventId == EventId(req[s].path)
           event == FindEvent(events, eventId)
           r     == IF uid = 0 THEN Response(401, "handler")
                    ELSE IF WhereThrows(eventId) THEN Failed(500, "fixed")
                    ELSE IF event = NoEvent THEN Response(404, "handler")
                    ELSE IF event.userId # uid THEN Response(403, "handler")
                    ELSE [Response(200, "handler") EXCEPT !.events = {event}]
       IN /\ pc' = [pc EXCEPT ![s] = "done"]
          /\ resp' = [resp EXCEPT ![s] = r]
          /\ ctx' = [ctx EXCEPT ![s].handler = "events/[id]:GET", ![s].authUid = uid]
    /\ UNCHANGED <<store, now, req, jar, pages>>

\* the where clause of findMany: the caller's events that overlap the window
EventVisible(e, uid, viewStart, viewEnd) ==
    /\ e.userId = uid
    /\ e.start < viewEnd
    /\ \/ e.end.set /\ e.end.t > viewStart
       \/ ~e.end.set /\ e.start >= viewStart

\* GET /api/events?start=&end=
EventsGET(s) ==
    /\ Routed(s, "events", {"GET"})
    /\ LET uid       == getAuthenticatedUserId(ctx[s])
           q         == req[s].query
           viewStart == ToDate(q.start)
           viewEnd   == ToDate(q.end)
           r == IF uid = 0 THEN Response(401, "handler")
                ELSE IF ~Truthy(q.start) \/ ~Truthy(q.end) THEN Response(400, "handler")
                ELSE IF viewStart.nan \/ viewEnd.nan THEN Response(400, "handler")
                ELSE [Response(200, "handler") EXCEPT !.events =
                        {e \in events : EventVisible(e, uid, viewStart.t, viewEnd.t)}]
       IN /\ pc' = [pc EXCEPT ![s] = "done"]
          /\ resp' = [resp EXCEPT ![s] = r]
          /\ ctx' = [ctx EXCEPT ![s].handler = "events:GET", ![s].authUid = uid]
    /\ UNCHANGED <<store, now, req, jar, pages>>

\* String.prototype.trim on the titles of the model
Trim(x) == IF x = " " THEN "" ELSE x

\* typeof j === 'string'
IsString(j) == j.t \in {"str", "date"}

MaxNewEvents == 2      \* creates in one run

\* the id prisma gives the k-th created event (@default(uuid()))
NewEventId(k) == <<"n", Digits[k + 1]>>

CreateInvalidNoOrderCheck(b) ==
    \/ ~Truthy(b.title) \/ ~IsString(b.title) \/ Trim(b.title.s) = ""
    \/ ~Truthy(b.start) \/ ToDate(b.start).nan
    \/ Truthy(b.end) /\ ToDate(b.end).nan
    \/ b.allDay.t \notin {"undef", "bool"}

\* the 400s of lines 20-39, in the order the code returns them
CreateInvalid(b) ==
    \/ ~Truthy(b.title) \/ ~IsString(b.title) \/ Trim(b.title.s) = ""
    \/ ~Truthy(b.start) \/ ToDate(b.start).nan
    \/ Truthy(b.end) /\ ToDate(b.end).nan
    \/ b.allDay.t \notin {"undef", "bool"}
    \/ Truthy(b.end) /\ ToDate(b.start).t > ToDate(b.end).t

\* the row prisma.calendarEvent.create stores
NewEvent(b, id, uid) ==
    [id |-> id, userId |-> uid, title |-> Trim(b.title.s), start |-> ToDate(b.start).t,
     end |-> IF Truthy(b.end) THEN EndAt(ToDate(b.end).t) ELSE NoEnd,
     allDay |-> IF b.allDay.t = "bool" THEN b.allDay.b ELSE TRUE,
     color |-> IF Truthy(b.color) THEN b.color.s ELSE "",
     description |-> IF Truthy(b.description) THEN b.description.s ELSE ""]

\* POST /api/events
EventPOST(s) ==
    /\ Routed(s, "events", {"POST"})
    /\ LET uid == getAuthenticatedUserId(ctx[s])
           b   == req[s].body
           st == IF uid = 0 THEN 401
                 ELSE IF b.syntax = "malformed" THEN 400
                 ELSE IF b.syntax = "null" THEN 500
                 ELSE IF CreateInvalid(b) THEN 400
                 ELSE IF \/ Truthy(b.color) /\ ~IsString(b.color)
                         \/ Truthy(b.description) /\ ~IsString(b.description)
                         \/ FindUserById(users, uid) = NoUser THEN 500
                 ELSE 201
           newEvent == NewEvent(b, NewEventId(seqs.uuid + 1), uid)
       IN IF st # 201
          THEN /\ pc' = [pc EXCEPT ![s] = "done"]
               /\ resp' = [resp EXCEPT ![s] = Failed(st, "fixed")]
               /\ ctx' = [ctx EXCEPT ![s].handler = "events:POST", ![s].authUid = uid]
               /\ UNCHANGED <<events, seqs>>
          ELSE /\ seqs.uuid < MaxNewEvents
               /\ events' = events \cup {newEvent}
               /\ seqs' = [seqs EXCEPT !.uuid = @ + 1]
               /\ pc' = [pc EXCEPT ![s] = "done"]
               /\ resp' = [resp EXCEPT ![s] =
                             [Response(201, "handler") EXCEPT !.events = {newEvent}]]
               /\ ctx' = [ctx EXCEPT ![s].handler = "events:POST", ![s].authUid = uid,
                                     ![s].wrote = TRUE]
    /\ UNCHANGED <<users, items, todos, now, req, jar, pages>>

\* updateData, lines 72-101: only the fields the body supplies
UpdateData(b) ==
    [hasTitle |-> b.title.t # "undef",  title |-> Trim(b.title.s),
     hasStart |-> b.start.t # "undef",  start |-> ToDate(b.start).t,
     hasEnd   |-> b.end.t # "undef",
     end      |-> IF Truthy(b.end) THEN EndAt(ToDate(b.end).t) ELSE NoEnd,
     hasAllDay |-> b.allDay.t # "undef", allDay |-> b.allDay.b,
     hasColor |-> b.color.t # "undef",  color |-> b.color,
     hasDescription |-> b.description.t # "undef", description |-> b.description]

\* the 400s of lines 80-118, in the order the code returns them
UpdateInvalid(b, existing) ==
    LET d == UpdateData(b)
    IN \/ d.hasTitle /\ (~IsString(b.title) \/ d.title = "")
       \/ d.hasStart /\ ToDate(b.start).nan
       \/ d.hasEnd /\ Truthy(b.end) /\ ToDate(b.end).nan
       \/ d.hasAllDay /\ b.allDay.t # "bool"
       \/ d.hasStart /\ d.end.set /\ d.start > d.end.t
       \/ d.hasStart /\ ~d.end.set /\ existing.end.set /\ d.start > existing.end.t
       \/ d.end.set /\ ~d.hasStart /\ existing.start > d.end.t
       \/ ~(d.hasTitle \/ d.hasStart \/ d.hasEnd \/ d.hasAllDay \/ d.hasColor
            \/ d.hasDescription)

\* a String? column takes a string or null; Prisma throws on anything else
ColumnText(j) == IF j.t = "null" THEN "" ELSE j.s
ColumnRejects(j) == j.t \in {"num", "bool"}

\* prisma.calendarEvent.update({ where: { id }, data: updateData }) on a row
ApplyUpdate(e, d) ==
    [e EXCEPT !.title  = IF d.hasTitle THEN d.title ELSE @,
              !.start  = IF d.hasStart THEN d.start ELSE @,
              !.end    = IF d.hasEnd THEN d.end ELSE @,
              !.allDay = IF d.hasAllDay THEN d.allDay ELSE @,
              !.color  = IF d.hasColor THEN ColumnText(d.color) ELSE @,
              !.description = IF d.hasDescription THEN ColumnText(d.description) ELSE @]

\* PUT lines 55-118: the status the handler returns before it writes (0: none).
\* request.json() comes first: what is not JSON is a SyntaxError (400), the
\* literal null cannot be destructured (TypeError, 500); then findUnique
EventPutCheck(b, eventId, existing, uid) ==
    IF b.syntax = "malformed" THEN 400
    ELSE IF b.syntax = "null" THEN 500
    ELSE IF WhereThrows(eventId) THEN 500
    ELSE IF existing = NoEvent THEN 404
    ELSE IF existing.userId # uid THEN 403
    ELSE IF UpdateInvalid(b, existing) THEN 400
    ELSE 0

\* PUT and PATCH /api/events/[id], up to the findUnique and the validation
EventPUT(s) ==
    /\ Routed(s, "events/[id]", {"PUT", "PATCH"})
    /\ LET uid      == getAuthenticatedUserId(ctx[s])
           eventId  == EventId(req[s].path)
           existing == FindEvent(events, eventId)
           st       == IF uid = 0 THEN 401
                       ELSE EventPutCheck(req[s].body, eventId, existing, uid)
       IN /\ ctx' = [ctx EXCEPT ![s].handler = "events/[id]:PUT", ![s].authUid = uid,
                                ![s].existing = existing]
          /\ IF st # 0
             THEN /\ pc' = [pc EXCEPT ![s] = "done"]
                  /\ resp' = [resp EXCEPT ![s] = Failed(st, "fixed")]
             ELSE /\ pc' = [pc EXCEPT ![s] = "eventUpdate"]
                  /\ UNCHANGED resp
    /\ UNCHANGED <<store, now, req, jar, pages>>

\* PUT line 120: prisma.calendarEvent.update; a missing row (P2025) or a value
\* the column does not take lands in the catch block: 500
EventPUTUpdate(s) ==
    /\ pc[s] = "eventUpdate"
    /\ LET id  == EventId(req[s].path)
           row == FindEvent(events, id)
           d   == UpdateData(req[s].body)
       IN IF WhereThrows(id) \/ row = NoEvent \/ (d.hasColor /\ ColumnRejects(d.color))
                           \/ (d.hasDescription /\ ColumnRejects(d.description))
          THEN /\ pc' = [pc EXCEPT ![s] = "done"]
               /\ resp' = [resp EXCEPT ![s] = Failed(500, "fixed")]
               /\ UNCHANGED <<events, ctx>>
          ELSE /\ events' = (events \ {row}) \cup {ApplyUpdate(row, d)}
               /\ pc' = [pc EXCEPT ![s] = "done"]
               /\ resp' = [resp EXCEPT ![s] =
                             [Response(200, "handler") EXCEPT
                                 !.events = {ApplyUpdate(row, d)}]]
               /\ ctx' = [ctx EXCEPT ![s].wrote = TRUE]
    /\ UNCHANGED <<users, items, todos, seqs, now, req, jar, pages>>

\* DELETE /api/events/[id], up to the findUnique
EventDELETE(s) ==
    /\ Routed(s, "events/[id]", {"DELETE"})
    /\ LET uid      == getAuthenticatedUserId(ctx[s])
           eventId  == EventId(req[s].path)
           existing == FindEvent(events, eventId)
           st       == IF uid = 0 THEN 401
                       ELSE IF WhereThrows(eventId) THEN 500
                       ELSE IF existing = NoEvent THEN 404
                       ELSE IF existing.userId # uid THEN 403
                       ELSE 0
       IN /\ ctx' = [ctx EXCEPT ![s].handler = "events/[id]:DELETE", ![s].authUid = uid,
                                ![s].existing = existing]
          /\ IF st # 0
             THEN /\ pc' = [pc EXCEPT ![s] = "done"]
                  /\ resp' = [resp EXCEPT ![s] = Failed(st, "fixed")]
             ELSE /\ pc' = [pc EXCEPT ![s] = "eventDelete"]
                  /\ UNCHANGED resp
    /\ UNCHANGED <<store, now, req, jar, pages>>

\* DELETE line 178: prisma.calendarEvent.delete; a missing row throws: 500
EventDELETEDelete(s) ==
    /\ pc[s] = "eventDelete"
    /\ LET id  == EventId(req[s].path)
           hit == {e \in events : e.id = id}
       IN IF WhereThrows(id) \/ hit = {}
          THEN /\ pc' = [pc EXCEPT ![s] = "done"]
               /\ resp' = [resp EXCEPT ![s] = Failed(500, "fixed")]
               /\ UNCHANGED <<events, ctx>>
          ELSE /\ events' = events \ hit
               /\ pc' = [pc EXCEPT ![s] = "done"]
               /\ resp' = [resp EXCEPT ![s] = Response(200, "handler")]
               /\ ctx' = [ctx EXCEPT ![s].wrote = TRUE]
    /\ UNCHANGED <<users, items, todos, seqs, now, req, jar, pages>>

(***************************************************************************)
(* Todos: DELETE /api/todos/[id] (no check of the caller in the handler).  *)
(***************************************************************************)
TodoDELETE(s) ==
    /\ Routed(s, "todos/[id]", {"DELETE"})
    /\ LET id == Param(req[s].path, PathTodos)
       IN /\ ctx' = [ctx EXCEPT ![s].handler = "todos/[id]:DELETE"]
          /\ IF ~\E t \in todos : t.id = id
             THEN /\ pc' = [pc EXCEPT ![s] = "done"]
                  /\ resp' = [resp EXCEPT ![s] = Response(404, "handler")]
             ELSE /\ pc' = [pc EXCEPT ![s] = "todoDelete"]
                  /\ UNCHANGED resp
    /\ UNCHANGED <<store, now, req, jar, pages>>

\* line 123: prisma.todo.delete; a missing row throws: 500
TodoDELETEDelete(s) ==
    /\ pc[s] = "todoDelete"
    /\ LET hit == {t \in todos : t.id = Param(req[s].path, PathTodos)}
       IN IF hit = {}
          THEN /\ pc' = [pc EXCEPT ![s] = "done"]
               /\ resp' = [resp EXCEPT ![s] = Failed(500, "isDev")]
               /\ UNCHANGED <<todos, ctx>>
          ELSE /\ todos' = todos \ hit
               /\ pc' = [pc EXCEPT ![s] = "done"]
               /\ resp' = [resp EXCEPT ![s] = Response(200, "handler")]
               /\ ctx' = [ctx EXCEPT ![s].wrote = TRUE]
    /\ UNCHANGED <<users, items, events, seqs, now, req, jar, pages>>

\* Number(x) of a string given by its characters; the result when it is an
\* integer, nan otherwise
StringToNumber(x) ==
    LET body == TrimChars(x)
        neg  == body # <<>> /\ Head(body) = "-"
        num  == IF neg THEN Tail(body) ELSE body
    IN IF body = <<>> THEN [nan |-> FALSE, val |-> 0]
       ELSE IF num # <<>> /\ \A i \in 1..Len(num) : IsDigit(num[i])
            THEN [nan |-> FALSE,
                  val |-> IF neg THEN 0 - DigitRun(num, 0) ELSE DigitRun(num, 0)]
            ELSE [nan |-> TRUE, val |-> 0]

\* z.coerce.number().int() on a JSON value: Number(j)
ToNumber(j) ==
    CASE j.t = "num"  -> [nan |-> FALSE, val |-> j.n]
      [] j.t = "str"  -> StringToNumber(j.cs)
      [] j.t = "bool" -> [nan |-> FALSE, val |-> IF j.b THEN 1 ELSE 0]
      [] j.t = "null" -> [nan |-> FALSE, val |-> 0]
      [] OTHER        -> [nan |-> TRUE, val |-> 0]

\* todoUpdateSchema.safeParse(body) fails
TodoUpdateInvalid(body) ==
    \/ body.syntax = "null"
    \/ body.text.t # "undef" /\ (body.text.t # "str" \/ TrimChars(body.text.cs) = <<>>)
    \/ body.completed.t \notin {"undef", "bool"}
    \/ body.priority.t # "undef" /\ ~InEnum(TodoPriorities, body.priority)
    \/ body.deadline.t \notin {"undef", "null", "date"}
    \/ body.userId.t \notin {"undef", "null"} /\ ToNumber(body.userId).nan

\* data.userId !== undefined && data.userId !== null
TodoUpdateNamesUser(body) == body.userId.t \notin {"undef", "null"}

\* prisma.todo.update({ where: { id }, data }) on a row; updatedAt is @updatedAt
TodoUpdated(row, body, t) ==
    [row EXCEPT
       !.text = IF body.text.t = "undef" THEN @ ELSE TrimChars(body.text.cs),
       !.completed = IF body.completed.t = "undef" THEN @ ELSE body.completed.b,
       !.priority = IF body.priority.t = "undef" THEN @ ELSE body.priority.s,
       !.deadline = CASE body.deadline.t = "undef" -> @
                      [] body.deadline.t = "null"  -> NoEnd
                      [] OTHER                     -> EndAt(body.deadline.n),
       !.userId = CASE body.userId.t = "undef" -> @
                    [] body.userId.t = "null"  -> 0
                    [] OTHER                   -> ToNumber(body.userId).val,
       !.updatedAt = t]

\* PUT /api/todos/[id] up to findUnique: a body that is not JSON throws into
\* the catch block: 500
TodoPUT(s) ==
    /\ Routed(s, "todos/[id]", {"PUT"})
    /\ LET id   == Param(req[s].path, PathTodos)
           body == req[s].body
           st == IF body.syntax = "malformed" THEN 500
                 ELSE IF TodoUpdateInvalid(body) THEN 400
                 ELSE IF ~\E t \in todos : t.id = id THEN 404
                 ELSE 0
       IN IF st # 0
          THEN Answer(s, "todos/[id]:PUT", Failed(st, "isDev"))
          ELSE /\ pc' = [pc EXCEPT ![s] = IF TodoUpdateNamesUser(body) THEN "todoUser"
                                          ELSE "todoUpdate"]
               /\ ctx' = [ctx EXCEPT ![s].handler = "todos/[id]:PUT"]
               /\ UNCHANGED resp
    /\ UNCHANGED <<store, now, req, jar, pages>>

\* lines 81-86: prisma.user.findUnique
TodoPUTUser(s) ==
    /\ pc[s] = "todoUser"
    /\ IF FindUserById(users, ToNumber(req[s].body.userId).val) = NoUser
       THEN /\ pc' = [pc EXCEPT ![s] = "done"]
            /\ resp' = [resp EXCEPT ![s] = Response(400, "handler")]
       ELSE /\ pc' = [pc EXCEPT ![s] = "todoUpdate"]
            /\ UNCHANGED resp
    /\ UNCHANGED <<store, now, req, ctx, jar, pages>>

\* line 88: prisma.todo.update; a missing row (P2025) or a missing user
\* (P2003) throws into the catch block: 500
TodoPUTUpdate(s) ==
    /\ pc[s] = "todoUpdate"
    /\ LET body == req[s].body
           hit  == {t \in todos : t.id = Param(req[s].path, PathTodos)}
       IN IF \/ hit = {}
             \/ TodoUpdateNamesUser(body)
                /\ FindUserById(users, ToNumber(body.userId).val) = NoUser
          THEN /\ pc' = [pc EXCEPT ![s] = "done"]
               /\ resp' = [resp EXCEPT ![s] = Failed(500, "isDev")]
               /\ UNCHANGED <<todos, ctx>>
          ELSE LET updated == TodoUpdated(CHOOSE t \in hit : TRUE, body, now)
               IN /\ todos' = (todos \ hit) \cup {updated}
                  /\ pc' = [pc EXCEPT ![s] = "done"]
                  /\ resp' = [resp EXCEPT ![s] =
                                [Response(200, "handler") EXCEPT !.rows = <<updated>>]]
                  /\ ctx' = [ctx EXCEPT ![s].wrote = TRUE]
    /\ UNCHANGED <<users, items, events, seqs, now, req, jar, pages>>

\* paginationSchema.safeParse(paramsToValidate) fails
PaginationInvalid(q) ==
    \/ q.page.has /\ (StringToNumber(q.page.v).nan \/ StringToNumber(q.page.v).val < 1)
    \/ q.limit.has /\ \/ StringToNumber(q.limit.v).nan
                      \/ StringToNumber(q.limit.v).val < 1
                      \/ StringToNumber(q.limit.v).val > 100
    \/ q.userId.has /\ StringToNumber(q.userId.v).nan
    \/ q.completed.has /\ q.completed.v \notin {"true", "false"}
    \/ q.priority.has /\ \A i \in 1..Len(TodoPriorities) : TodoPriorities[i] # q.priority.v

\* validationResult.data.page and .limit, with their defaults
TodoPage(q)  == IF q.page.has THEN StringToNumber(q.page.v).val ELSE 1
TodoLimit(q) == IF q.limit.has THEN StringToNumber(q.limit.v).val ELSE 10

\* the where object, lines 100-115
TodoWhere(row, q) ==
    /\ q.userId.has => row.userId = StringToNumber(q.userId.v).val
    /\ q.completed.has => row.completed = (q.completed.v = "true")
    /\ q.priority.has => row.priority = q.priority.v
    /\ (q.search.has /\ TrimChars(q.search.v) # <<>>)
          => ContainsInsensitive(row.text, TrimChars(q.search.v))

\* orderBy [{ priority: 'asc' }, { createdAt: 'desc' }]: ties come in any order
TodosOrdered(S) ==
    {f \in Arrangements(S) :
        \A i, j \in 1..Cardinality(S) :
            i < j => \/ EnumRank(TodoPriorities, f[i].priority)
                           < EnumRank(TodoPriorities, f[j].priority)
                     \/ /\ f[i].priority = f[j].priority
                        /\ f[i].createdAt >= f[j].createdAt}

\* GET /api/todos up to prisma.todo.count
TodosGET(s) ==
    /\ Routed(s, "todos", {"GET"})
    /\ LET q == req[s].query
       IN IF PaginationInvalid(q)
          THEN Answer(s, "todos:GET", Response(400, "handler"))
          ELSE /\ pc' = [pc EXCEPT ![s] = "todosFind"]
               /\ resp' = [resp EXCEPT ![s] =
                             [NoResp EXCEPT
                                !.totalCount = Cardinality({t \in todos : TodoWhere(t, q)}),
                                !.currentPage = TodoPage(q)]]
               /\ ctx' = [ctx EXCEPT ![s].handler = "todos:GET"]
    /\ UNCHANGED <<store, now, req, jar, pages>>

\* GET /api/todos from prisma.todo.findMany on
TodosGETFind(s) ==
    /\ pc[s] = "todosFind"
    /\ LET q == req[s].query
       IN \E ordered \in TodosOrdered({t \in todos : TodoWhere(t, q)}) :
            resp' = [resp EXCEPT
                       ![s].status = 200, ![s].by = "handler",
                       ![s].rows = Window(ordered, (TodoPage(q) - 1) * TodoLimit(q),
                                          TodoLimit(q)),
                       ![s].totalPages = CeilDiv(resp[s].totalCount, TodoLimit(q))]
    /\ pc' = [pc EXCEPT ![s] = "done"]
    /\ UNCHANGED <<store, now, req, ctx, jar, pages>>

\* PUT and DELETE of todos/route.ts: /api/todos has no [id] segment, `id` is
\* undefined: 400
TodosNoId(s) ==
    /\ Routed(s, "todos", {"PUT", "DELETE"})
    /\ Answer(s, "todos:" \o req[s].method, Response(400, "handler"))
    /\ UNCHANGED <<store, now, req, jar, pages>>

(***************************************************************************)
(* POST /api/auth/login.                                                   *)
(***************************************************************************)
VerifyPasswordAlwaysTrue(password, hashedPassword) == TRUE

\* verifyPassword: bcrypt.compare
VerifyPassword(password, hashedPassword) == hashedPassword = Hash(password)

\* the value written to the token cookie: generateToken is async and the handler
\* does not await it, so `token` is a Promise and the cookie holds its string form
LoginCookie(u, t) == PromiseText

\* lines 6-35.  What throws inside the try (a body that is not an object, no
\* username for findUnique, no string for bcrypt.compare) is answered 500
LoginPOST(s) ==
    /\ Routed(s, "auth/login", {"POST"})
    /\ LET b    == req[s].body
           user == FindUserByName(users, b.username.s)
           r == IF b.syntax # "json" \/ b.username.t # "str" THEN Failed(500, "fixed")
                ELSE IF user = NoUser THEN Response(401, "handler")
                ELSE IF b.password.t # "str" THEN Failed(500, "fixed")
                ELSE IF ~VerifyPassword(b.password.s, user.password)
                     THEN Response(401, "handler")
                ELSE [Response(200, "handler") EXCEPT
                         !.setCookie = LoginCookie(user.id, now)]
       IN /\ pc' = [pc EXCEPT ![s] = "done"]
          /\ resp' = [resp EXCEPT ![s] = r]
          /\ ctx' = [ctx EXCEPT ![s].handler = "auth/login:POST",
                                ![s].authUid = IF r.status = 200 THEN user.id ELSE 0]
    /\ UNCHANGED <<store, now, req, jar, pages>>

\* the browser sends a request of R with the token cookie of its jar
SendWithJar(s, R) ==
    /\ pc[s] = "idle"
    /\ jar.cookie # NoCookie
    /\ \E r \in R : req' = [req EXCEPT ![s] =
                              [r EXCEPT !.cookie = jar.cookie, !.jarUser = jar.user,
                                        !.jarAt = jar.at]]
    /\ pc' = [pc EXCEPT ![s] = "gate"]
    /\ UNCHANGED <<store, now, ctx, resp, jar, pages>>

(***************************************************************************)
(* Spec: one client probing the gate with every kind of token cookie,      *)
(* while time passes and users are removed.                                *)
(***************************************************************************)
GateCookies ==
    {NoCookie, EmptyCookie, PromiseText, GenerateToken(1, 0), GenerateToken(2, 0),
     ForgedToken(1, 0)}

GateTargets ==
    {<<m, PathItems>> : m \in {"GET"}}
    \cup {<<m, ItemPath(<<"1">>)>> : m \in {"DELETE", "PATCH"}}
    \cup {<<m, EventPath(<<"e", "1">>)>> : m \in {"GET", "POST"}}
    \cup {<<m, PathMe \o <<"/extra">>>> : m \in {"GET", "POST"}}
    \cup {<<"GET", <<"/api">>>>}

GateRequests ==
    {[Request(t[1], t[2], c) EXCEPT !.xuid = x, !.xrole = IF x = <<>> THEN "" ELSE "ADMIN"] :
        t \in GateTargets, c \in GateCookies, x \in {<<>>, <<"1">>}}

Next ==
    \/ \E s \in SeqSlots : Send(s, GateRequests)
    \/ \E s \in SeqSlots : Gate(s)
    \/ \E s \in SeqSlots : NoRoute(s)
    \/ \E s \in SeqSlots : ItemsGET(s)
    \/ \E s \in SeqSlots : ItemsGETCount(s)
    \/ \E s \in SeqSlots : ItemDELETE(s)
    \/ \E s \in SeqSlots : EventGET(s)
    \/ \E s \in SeqSlots : Receive(s)
    \/ Tick
    \/ \E u \in UserIds : DeleteUser(u)

Spec == Init /\ [][Next]_vars

(***************************************************************************)
(* Claims about the gate, checked under Spec.                              *)
(***************************************************************************)
\* the cookie is a token signed with the server's secret that had not expired
\* when the gate ran
ValidAtGate(s) ==
    /\ req[s].cookie.kind = "jwt"
    /\ req[s].cookie.sig = "secret"
    /\ ctx[s].gateAt < req[s].cookie.exp

\* the gate has run and did not answer the request itself
PassedGate(s) == ctx[s].gated /\ (pc[s] = "done" => resp[s].by # "gate")

\* the gate answered the request: no handler ran, nothing was written
RejectedByGate(s, st) ==
    /\ pc[s] = "done"
    /\ resp[s].status = st
    /\ resp[s].by = "gate"
    /\ ctx[s].handler = ""
    /\ ~ctx[s].wrote

\* the path is one the gate checks (under /api/ and not matched by publicPaths)
Gated(s) == ctx[s].gated /\ IsApiPath(req[s].path) /\ ~IsPublic(req[s].path)

\* C1: a POST, PUT, PATCH or DELETE to a gated path by a caller whose role resolves
\* to USER is answered 403 by the gate, no handler runs and nothing is written; a
\* GET by the same caller is forwarded, and GET /api/items is answered 200.
C1_UserRoleCannotMutate ==
    \A s \in Slots :
        ( /\ Gated(s)
          /\ ValidAtGate(s)
          /\ ctx[s].fault = "none"
          /\ \E u \in users : u.id = req[s].cookie.forUser /\ u.role = "USER" )
        => /\ req[s].method \in {"POST", "PUT", "PATCH", "DELETE"}
                => RejectedByGate(s, 403)
           /\ req[s].method = "GET" => PassedGate(s)
           /\ (req[s].method = "GET" /\ req[s].path = PathItems /\ pc[s] = "done")
                => resp[s].status = 200 /\ resp[s].by = "handler"

C1_Witness ==
    \E s \in Slots :
        /\ req[s].method = "DELETE"
        /\ req[s].path = ItemPath(<<"1">>)
        /\ req[s].cookie = GenerateToken(2, 0)
        /\ RejectedByGate(s, 403)
        /\ \E row \in items : row.id = 1

\* C2: a handler runs for a path other than the four public endpoints only if
\* the request's token cookie verified when the gate ran; on a gated path a
\* missing, invalid or expired token is answered 401 by the gate and no handler
\* runs.
C2_NoHandlerWithoutVerifiedToken ==
    \A s \in Slots :
        /\ (ctx[s].handler # "" /\ ~IsPublicExact(req[s].path)) => ValidAtGate(s)
        /\ (Gated(s) /\ ~ValidAtGate(s)) => RejectedByGate(s, 401)

C2_Witness ==
    \E s \in Slots :
        /\ req[s].cookie = GenerateToken(1, 0)
        /\ req[s].path = ItemPath(<<"1">>)
        /\ req[s].method = "DELETE"
        /\ ctx[s].gateAt >= TokenTTL
        /\ RejectedByGate(s, 401)
        /\ resp[s].clear

\* C3: on a gated path that the gate forwards, x-user-id is the identity of the
\* verified token and x-user-role the role stored for it, whatever the client
\* sent in those headers; the identity a handler reads is the token's user.
C3_ForwardedIdentityIsTokens ==
    \A s \in Slots :
        /\ (Gated(s) /\ PassedGate(s))
             => /\ ctx[s].hdrUid = NumberToString(req[s].cookie.forUser)
                /\ \A u \in users : u.id = req[s].cookie.forUser
                                       => ctx[s].hdrRole = u.role
        /\ ctx[s].handler \in {"events/[id]:GET"}
             => ctx[s].authUid = req[s].cookie.forUser

C3_Witness ==
    \E s \in Slots :
        /\ req[s].xuid = <<"1">>
        /\ req[s].xrole = "ADMIN"
        /\ req[s].cookie.forUser = 2
        /\ ctx[s].handler = "events/[id]:GET"
        /\ ctx[s].authUid = 2
        /\ ctx[s].hdrRole = "USER"

\* C6 (as claimed): a request without a token passes the gate only if its path
\* is exactly one of the four public endpoints.
C6_TokenlessOnlyOnPublicEndpoints ==
    \A s \in Slots :
        ( /\ IsApiPath(req[s].path)
          /\ ~HasTokenValue(req[s].cookie)
          /\ PassedGate(s) )
        => IsPublicExact(req[s].path)

\* C7: with a verified token on a gated path, a role lookup that fails (the
\* user row is gone, the query fails, the fetch throws) makes the gate answer
\* 500, and a lookup that succeeds without a role makes it answer 403; the
\* request is not forwarded.
C7_LookupFailureRejects ==
    [][ \A s \in Slots :
          ( /\ pc[s] = "gate" /\ pc'[s] # "gate"
            /\ IsApiPath(req[s].path) /\ ~IsPublic(req[s].path)
            /\ VerifyToken(req[s].cookie, now).ok )
          => LET known == \E u \in users : u.id = req[s].cookie.forUser
                 f     == ctx'[s].fault
             IN /\ (f \in {"throw", "db"} \/ ~known)
                     => /\ pc'[s] = "done"
                        /\ resp'[s].status = 500
                        /\ resp'[s].by = "gate"
                /\ (f = "norole" /\ known)
                     => /\ pc'[s] = "done"
                        /\ resp'[s].status = 403
                        /\ resp'[s].by = "gate" ]_vars

C7_Witness ==
    \E s \in Slots :
        /\ Gated(s)
        /\ ValidAtGate(s)
        /\ ctx[s].fault = "none"
        /\ ~\E u \in users : u.id = req[s].cookie.forUser
        /\ req[s].method = "GET"
        /\ RejectedByGate(s, 500)

(***************************************************************************)
(* SpecEvents: the two seeded users, each with a token of their own, read  *)
(* and change calendar events.  e2 belongs to user 2; user 1 is the ADMIN. *)
(***************************************************************************)
EventIds == {<<"e", "1">>, <<"e", "2">>, <<"e", "9">>}

EventCookies == {GenerateToken(1, 0), GenerateToken(2, 0)}

EventQueries ==
    {NoQuery, [NoQuery EXCEPT !.start = DateStr(0), !.end = DateStr(3)],
     [NoQuery EXCEPT !.start = DateStr(2), !.end = DateStr(3)],
     [NoQuery EXCEPT !.start = Str("x"), !.end = DateStr(3)]}

EventBodies ==
    {NoBody, NullBody, EmptyObject,
     [EmptyObject EXCEPT !.title = Str("c")],
     [EmptyObject EXCEPT !.title = Str(" ")],
     [EmptyObject EXCEPT !.start = DateStr(3)],
     [EmptyObject EXCEPT !.end = DateStr(0)],
     [EmptyObject EXCEPT !.end = Null, !.allDay = Bool(FALSE)],
     [EmptyObject EXCEPT !.allDay = Str("x")],
     [EmptyObject EXCEPT !.color = Num(1)]}

EventRequests ==
    {[Request("GET", PathEvents, c) EXCEPT !.query = q] :
        c \in EventCookies, q \in EventQueries}
    \cup {Request(m, EventPath(id), c) :
            m \in {"GET", "DELETE"}, id \in EventIds, c \in EventCookies}
    \cup {[Request(m, EventPath(id), c) EXCEPT !.body = b] :
            m \in {"PUT", "PATCH"}, id \in EventIds, c \in EventCookies,
            b \in EventBodies}
    \cup {Request("POST", EventPath(<<"e", "1">>), GenerateToken(1, 0))}

NextEvents ==
    \/ \E s \in SeqSlots : Send(s, EventRequests)
    \/ \E s \in SeqSlots : Gate(s)
    \/ \E s \in SeqSlots : NoRoute(s)
    \/ \E s \in SeqSlots : EventsGET(s)
    \/ \E s \in SeqSlots : EventGET(s)
    \/ \E s \in SeqSlots : EventPUT(s)
    \/ \E s \in SeqSlots : EventDELETE(s)
    \/ \E s \in SeqSlots : Receive(s)

\* EventPUTUpdate and EventDELETEDelete are no steps of the program as it is: the
\* findUnique before them throws (EventId is undefined), so neither is reached
SpecEvents == Init /\ [][NextEvents]_vars

\* the event the request names, as the store holds it now
Target(s) == FindEvent(events, Param(req[s].path, PathEvents))

\* C4 (as claimed): a PUT, PATCH or DELETE of an event that exists and belongs
\* to another user than the authenticated caller is answered 403.
C4_NonOwnerMutationAnswered403 ==
    \A s \in Slots :
        ( /\ pc[s] = "done"
          /\ ctx[s].handler \in {"events/[id]:PUT", "events/[id]:DELETE"}
          /\ ctx[s].authUid # 0
          /\ Target(s) # NoEvent
          /\ Target(s).userId # ctx[s].authUid )
        => resp[s].status = 403

\* C5 (as claimed): every event a response carries belongs to the caller the
\* token names: the list holds only the caller's events, and a GET of another
\* user's event by id is answered 403 without the event.
C5_ReadsOnlyOwnEvents ==
    \A s \in Slots :
        pc[s] = "done" =>
            /\ \A e \in resp[s].events : e.userId = req[s].cookie.forUser
            /\ ( /\ ctx[s].handler = "events/[id]:GET"
                 /\ Target(s) # NoEvent
                 /\ Target(s).userId # req[s].cookie.forUser )
               => resp[s].status = 403 /\ resp[s].events = {}


(***************************************************************************)
(* SpecAuth: a browser logs in, keeps the cookie the login sets and sends  *)
(* it with its later requests, while days pass.                            *)
(***************************************************************************)
LoginBodies ==
    {[EmptyObject EXCEPT !.username = Str(n), !.password = Str(pw)] :
        n \in {"admin", "user", "ghost"}, pw \in {"pwAdmin", "pwUser"}}
    \cup {NoBody, NullBody, EmptyObject,
          [EmptyObject EXCEPT !.username = Str("admin")],
          [EmptyObject EXCEPT !.username = Num(1), !.password = Str("pwAdmin")]}

LoginRequests ==
    {[Request("POST", PathLogin, NoCookie) EXCEPT !.body = b] : b \in LoginBodies}
    \cup {Request("GET", PathLogin, NoCookie)}

JarRequests ==
    {Request("GET", PathItems, NoCookie), Request("DELETE", ItemPath(<<"1">>), NoCookie),
     Request("GET", EventPath(<<"e", "1">>), NoCookie)}

NextAuth ==
    \/ \E s \in SeqSlots : Send(s, LoginRequests)
    \/ \E s \in SeqSlots : SendWithJar(s, JarRequests)
    \/ \E s \in SeqSlots : Gate(s)
    \/ \E s \in SeqSlots : NoRoute(s)
    \/ \E s \in SeqSlots : LoginPOST(s)
    \/ \E s \in SeqSlots : Receive(s)
    \/ Tick

SpecAuth == Init /\ [][NextAuth]_vars

\* the login handler has answered a body that carries a username and a password
LoginAnswered(s) ==
    /\ pc[s] = "done"
    /\ ctx[s].handler = "auth/login:POST"
    /\ req[s].body.syntax = "json"
    /\ req[s].body.username.t = "str"
    /\ req[s].body.password.t = "str"

\* the body names a stored user and carries the password that user's hash is of
CorrectCredentials(b) ==
    \E u \in users : u.username = b.username.s /\ u.password = Hash(b.password.s)

\* C8: a login with an existing username and its password is answered 200 with
\* a Set-Cookie for the token; with a wrong password or an unknown username it
\* is answered 401 with no Set-Cookie.
C8_LoginAnswers ==
    \A s \in Slots :
        LoginAnswered(s) =>
            IF CorrectCredentials(req[s].body)
            THEN resp[s].status = 200 /\ resp[s].setCookie # NoCookie
            ELSE resp[s].status = 401 /\ resp[s].setCookie = NoCookie
                 /\ ~resp[s].clear

\* admin with user's password is refused after an earlier login set the cookie
C8_Witness ==
    \E s \in Slots :
        /\ LoginAnswered(s)
        /\ req[s].body.username.s = "admin"
        /\ req[s].body.password.s = "pwUser"
        /\ resp[s].status = 401
        /\ jar.user = 1

\* C9 (as claimed): a request that carries the cookie a successful login of u
\* set, sent to a gated path less than 7 days after that login while the role
\* lookup works, is not answered 401: the gate forwards it with x-user-id u or
\* refuses it for u's role.
C9_LoginCookieAuthenticates ==
    \A s \in Slots :
        ( /\ req[s].jarUser # 0
          /\ Gated(s)
          /\ ctx[s].gateAt < req[s].jarAt + TokenTTL
          /\ ctx[s].fault = "none" )
        => /\ ~RejectedByGate(s, 401)
           /\ PassedGate(s) => ctx[s].hdrUid = NumberToString(req[s].jarUser)

(***************************************************************************)
(* SpecDelete: the ADMIN deletes items, todos and events of its own, one   *)
(* request after the other.                                                *)
(***************************************************************************)
DeleteTargets ==
    {ItemPath(id) : id \in {<<"1">>, <<"2">>, <<"9">>}}
    \cup {TodoPath(id) : id \in {<<"t", "1">>, <<"t", "2">>, <<"t", "9">>}}
    \cup {EventPath(id) : id \in {<<"e", "1">>, <<"e", "9">>}}

DeleteRequests ==
    {Request("DELETE", p, GenerateToken(1, 0)) : p \in DeleteTargets}
    \cup {Request("DELETE", PathItems, GenerateToken(1, 0))}

NextDelete ==
    \/ \E s \in SeqSlots : Send(s, DeleteRequests)
    \/ \E s \in SeqSlots : Gate(s)
    \/ \E s \in SeqSlots : NoRoute(s)
    \/ \E s \in SeqSlots : ItemDELETE(s)
    \/ \E s \in SeqSlots : TodoDELETE(s)
    \/ \E s \in SeqSlots : TodoDELETEDelete(s)
    \/ \E s \in SeqSlots : EventDELETE(s)
    \/ \E s \in SeqSlots : Receive(s)

SpecDelete == Init /\ [][NextDelete]_vars

DeleteHandlers == {"items/[id]:DELETE", "todos/[id]:DELETE", "events/[id]:DELETE"}

\* the request's record is in store st = <<items, todos, events>>
InStore(r, st) ==
    \/ \E row \in st[1] : NumberToString(row.id) = Param(r.path, PathItems)
    \/ \E row \in st[2] : row.id = Param(r.path, PathTodos)
    \/ \E row \in st[3] : row.id = Param(r.path, PathEvents)

\* C10 (as claimed): when a delete handler answers, the answer is 200 if the
\* record was in the store and 404 if it was not, never 500, and the record is
\* not in the store afterwards; so a second delete of the same id is answered 404.
C10_DeleteAnswers200Then404 ==
    [][ \A s \in Slots :
          ( /\ pc[s] # "done" /\ pc'[s] = "done"
            /\ ctx'[s].handler \in DeleteHandlers )
          => /\ resp'[s].status =
                   IF InStore(req[s], <<items, todos, events>>) THEN 200 ELSE 404
             /\ ~InStore(req[s], <<items', todos', events'>>) ]_vars

(***************************************************************************)
(* SpecRace: two connections of one signed-in administrator, each changing *)
(* or deleting item 1 or todo t1, their steps interleaved.                 *)
(***************************************************************************)
RaceRequests ==
    {Request("DELETE", p, GenerateToken(1, 0)) :
        p \in {ItemPath(<<"1">>), TodoPath(<<"t", "1">>)}}
    \cup {[Request("PUT", ItemPath(<<"1">>), GenerateToken(1, 0)) EXCEPT
             !.body = [EmptyObject EXCEPT !.quantity = Num(5)]]}
    \cup {[Request("PUT", TodoPath(<<"t", "1">>), GenerateToken(1, 0)) EXCEPT
             !.body = b] :
             b \in {[EmptyObject EXCEPT !.completed = Bool(TRUE)],
                    [EmptyObject EXCEPT !.userId = Num(1)]}}

NextRace ==
    \/ \E s \in Slots : Send(s, RaceRequests)
    \/ \E s \in Slots : Gate(s)
    \/ \E s \in Slots : ItemPUT(s)
    \/ \E s \in Slots : ItemDELETE(s)
    \/ \E s \in Slots : TodoPUT(s)
    \/ \E s \in Slots : TodoPUTUser(s)
    \/ \E s \in Slots : TodoPUTUpdate(s)
    \/ \E s \in Slots : TodoDELETE(s)
    \/ \E s \in Slots : TodoDELETEDelete(s)
    \/ \E s \in Slots : Receive(s)

SpecRace == Init /\ [][NextRace]_vars

MutationHandlers ==
    DeleteHandlers \cup {"items/[id]:PUT", "todos/[id]:PUT", "events/[id]:PUT"}

\* C11 (as claimed): a well-formed update or delete that is answered by its
\* handler without having written, and whose record is not in the store (another
\* request removed it first), is answered 404, never 500.
C11_LoserAnswered404 ==
    \A s \in Slots :
        ( /\ pc[s] = "done"
          /\ ctx[s].handler \in MutationHandlers
          /\ ~ctx[s].wrote
          /\ ~InStore(req[s], <<items, todos, events>>) )
        => resp[s].status = 404

(***************************************************************************)
(* SpecItems: one signed-in administrator creating and updating items.     *)
(***************************************************************************)
ItemQuantities == {Num(3), Num(0 - 1), Chars(<<"7">>), Chars(<<"a", "b">>), Undef}

ItemNotes == {Str("n"), Str(""), Undef}

\* what the table page's form posts, with every kind of quantity and notes
ItemCreateBodies ==
    {[EmptyObject EXCEPT !.storeName = Str("B"), !.itemName = Chars(<<"z">>),
                         !.quantity = q, !.specification = Str("s"),
                         !.deliveryMethod = Str("DIRECT"), !.notes = n] :
        q \in ItemQuantities, n \in ItemNotes}
    \cup {EmptyObject, NoBody}

ItemUpdateBodies ==
    {[EmptyObject EXCEPT !.quantity = q] : q \in ItemQuantities}
    \cup {[EmptyObject EXCEPT !.notes = Str("")],
          [EmptyObject EXCEPT !.progressStatus = Str("COMPLETED")],
          [EmptyObject EXCEPT !.progressStatus = Str("DONE")],
          NoBody}

ItemRequests ==
    {[Request("POST", PathItems, GenerateToken(1, 0)) EXCEPT !.body = b] :
        b \in ItemCreateBodies}
    \cup {[Request("PUT", ItemPath(id), GenerateToken(1, 0)) EXCEPT !.body = b] :
            id \in {<<"1">>, <<"3">>, <<"x">>}, b \in ItemUpdateBodies}
    \cup {Request("GET", ItemPath(id), GenerateToken(1, 0)) : id \in {<<"1">>, <<"3">>}}

NextItems ==
    \/ \E s \in SeqSlots : Send(s, ItemRequests)
    \/ \E s \in SeqSlots : Gate(s)
    \/ \E s \in SeqSlots : NoRoute(s)
    \/ \E s \in SeqSlots : ItemPOST(s)
    \/ \E s \in SeqSlots : ItemPUT(s)
    \/ \E s \in SeqSlots : Receive(s)

SpecItems == Init /\ [][NextItems]_vars

\* the request carries a quantity that is negative or not a number
BadQuantity(r) ==
    r.body.syntax = "json" /\ r.body.quantity.t # "undef"
    /\ (QuantityOf(r.body.quantity).nan \/ QuantityOf(r.body.quantity).val < 0)

\* C12 (as claimed): every stored item has quantity >= 0, and a create or update
\* carrying a negative or non-numeric quantity is answered with a refusal and
\* writes nothing.
C12_QuantityNeverNegative ==
    /\ \A row \in items : row.quantity >= 0
    /\ \A s \in Slots :
         ( /\ pc[s] = "done"
           /\ ctx[s].handler \in {"items:POST", "items/[id]:PUT"}
           /\ BadQuantity(req[s]) )
         => resp[s].status \notin {200, 201} /\ ~ctx[s].wrote

(***************************************************************************)
(* SpecCalendar: two connections of one signed-in user creating calendar   *)
(* events and updating them, their steps interleaved.                      *)
(***************************************************************************)
CalendarCreateBodies ==
    {[EmptyObject EXCEPT !.title = Str("c"), !.start = st, !.end = en] :
        st \in {DateStr(1), DateStr(3)}, en \in {Undef, Null, DateStr(2)}}

CalendarUpdateBodies ==
    {[EmptyObject EXCEPT !.start = DateStr(5)], [EmptyObject EXCEPT !.end = DateStr(0)]}

CalendarRequests ==
    {[Request("POST", PathEvents, GenerateToken(1, 0)) EXCEPT !.body = b] :
        b \in CalendarCreateBodies}
    \cup {[Request("PUT", EventPath(id), GenerateToken(1, 0)) EXCEPT !.body = b] :
            id \in {<<"e", "1">>, NewEventId(1)}, b \in CalendarUpdateBodies}

NextCalendar ==
    \/ \E s \in Slots : Send(s, CalendarRequests)
    \/ \E s \in Slots : Gate(s)
    \/ \E s \in Slots : EventPOST(s)
    \/ \E s \in Slots : EventPUT(s)
    \/ \E s \in Slots : Receive(s)

SpecCalendar == Init /\ [][NextCalendar]_vars

MaxTextLength == 200      \* maxLength of the todo page's text inputs

\* a text of n characters
TextOfLength(n) == [i \in 1..n |-> "a"]

TodoTexts ==
    {Chars(TextOfLength(MaxTextLength)), Chars(TextOfLength(MaxTextLength + 1)),
     Chars(<<"c">>), Chars(<<" ">>), Num(1)}

TodoUpdateBodies ==
    {[EmptyObject EXCEPT !.text = t] : t \in TodoTexts}
    \cup {[EmptyObject EXCEPT !.completed = Bool(TRUE)],
          [EmptyObject EXCEPT !.completed = Str("yes")],
          [EmptyObject EXCEPT !.priority = Str("LOW")],
          [EmptyObject EXCEPT !.priority = Str("URGENT")],
          [EmptyObject EXCEPT !.deadline = DateStr(3)],
          [EmptyObject EXCEPT !.deadline = Null],
          [EmptyObject EXCEPT !.userId = Num(2)],
          [EmptyObject EXCEPT !.userId = Chars(<<"1">>)],
          [EmptyObject EXCEPT !.userId = Num(7)],
          [EmptyObject EXCEPT !.userId = Chars(<<"x">>)],
          [EmptyObject EXCEPT !.userId = Null],
          NullBody, NoBody}

TodoRequests ==
    {[Request("PUT", TodoPath(id), GenerateToken(1, 0)) EXCEPT !.body = b] :
        id \in {<<"t", "1">>, <<"t", "9">>}, b \in TodoUpdateBodies}
    \cup {Request(m, PathTodos, GenerateToken(1, 0)) : m \in {"PUT", "DELETE", "POST"}}

NextTodos ==
    \/ \E s \in SeqSlots : Send(s, TodoRequests)
    \/ \E s \in SeqSlots : Gate(s)
    \/ \E s \in SeqSlots : NoRoute(s)
    \/ \E s \in SeqSlots : TodosNoId(s)
    \/ \E s \in SeqSlots : TodoPUT(s)
    \/ \E s \in SeqSlots : TodoPUTUser(s)
    \/ \E s \in SeqSlots : TodoPUTUpdate(s)
    \/ \E s \in SeqSlots : Receive(s)

SpecTodos == Init /\ [][NextTodos]_vars

\* C14 (as claimed): no stored todo has a text longer than 200 characters; an
\* update of a stored todo whose text has more than 200 characters is answered
\* 400 and writes nothing, and one whose text has exactly 200 characters is not
\* answered 400.
C14_TodoTextAtMost200 ==
    /\ \A t \in todos : Len(t.text) <= MaxTextLength
    /\ \A s \in Slots :
         ( /\ pc[s] = "done"
           /\ ctx[s].handler = "todos/[id]:PUT"
           /\ req[s].body.syntax = "json" /\ req[s].body.text.t = "str"
           /\ InStore(req[s], <<items, todos, events>>) )
         => /\ Len(req[s].body.text.cs) > MaxTextLength
                 => resp[s].status = 400 /\ ~ctx[s].wrote
            /\ Len(req[s].body.text.cs) = MaxTextLength => resp[s].status # 400

(***************************************************************************)
(* SpecLists: one signed-in administrator listing items and todos with     *)
(* every kind of page, limit, filter and sort parameter, and adding items. *)
(***************************************************************************)
PageParams ==
    {NoParam} \cup {QueryParam(v) : v \in {<<"0">>, <<"1">>, <<"2">>, <<"x">>}}

LimitParams ==
    {NoParam} \cup {QueryParam(v) : v \in {<<"0">>, <<"1">>, <<"2">>, <<"1", "0", "0">>,
                                           <<"1", "0", "0", "0">>}}

\* sortConfig.direction of the table page, and what the handler itself knows
SortDirections == {"ascending", "descending", "asc", "desc"}

ItemQueries ==
    {[NoQuery EXCEPT !.page = pg, !.limit = lm] : pg \in PageParams, lm \in LimitParams}
    \cup {[NoQuery EXCEPT !.page = QueryParam(<<"1">>), !.limit = QueryParam(<<"1", "0">>),
                          !.storeName = QueryParam("A"), !.status = QueryParam(st)] :
             st \in {"UNCONFIRMED", "COMPLETED"}}
    \cup {[NoQuery EXCEPT !.page = QueryParam(<<"1">>), !.limit = QueryParam(<<"1", "0">>),
                          !.sortBy = QueryParam(col), !.sortOrder = QueryParam(dir)] :
             col \in {"quantity", "itemName", "bogus"}, dir \in SortDirections}
    \cup {[NoQuery EXCEPT !.itemName = QueryParam(<<"k">>)]}

TodoQueries ==
    {[NoQuery EXCEPT !.page = pg, !.limit = lm] : pg \in PageParams, lm \in LimitParams}
    \cup {[NoQuery EXCEPT !.userId = QueryParam(v)] : v \in {<<"1">>, <<"x">>}}
    \cup {[NoQuery EXCEPT !.completed = QueryParam(v)] : v \in {"false", "maybe"}}
    \cup {[NoQuery EXCEPT !.priority = QueryParam(v)] : v \in {"HIGH", "URGENT"}}
    \cup {[NoQuery EXCEPT !.search = QueryParam(<<" ", "A">>)]}

ListRequests ==
    {[Request("GET", PathItems, GenerateToken(1, 0)) EXCEPT !.query = q] : q \in ItemQueries}
    \cup {[Request("GET", PathTodos, GenerateToken(1, 0)) EXCEPT !.query = q] :
            q \in TodoQueries}
    \cup {[Request("POST", PathItems, GenerateToken(1, 0)) EXCEPT !.body =
             [EmptyObject EXCEPT !.storeName = Str("B"), !.itemName = Chars(<<"z">>),
                                 !.quantity = Num(3), !.specification = Str("s"),
                                 !.deliveryMethod = Str("DIRECT")]]}

NextLists ==
    \/ \E s \in SeqSlots : Send(s, ListRequests)
    \/ \E s \in SeqSlots : Gate(s)
    \/ \E s \in SeqSlots : ItemsGET(s)
    \/ \E s \in SeqSlots : ItemsGETCount(s)
    \/ \E s \in SeqSlots : TodosGET(s)
    \/ \E s \in SeqSlots : TodosGETFind(s)
    \/ \E s \in SeqSlots : ItemPOST(s)
    \/ \E s \in SeqSlots : Receive(s)

SpecLists == Init /\ [][NextLists]_vars

\* connection s holds the answer of a list handler
ListAnswered(s) == pc[s] = "done" /\ ctx[s].handler \in {"items:GET", "todos:GET"}

\* C15 (as claimed): a GET /api/items with a storeName and a status filter
\* returns only items matching both, and totalItems is the number of stored
\* items matching both.
C15_BothFiltersApplied ==
    \A s \in Slots :
        ( /\ ListAnswered(s) /\ ctx[s].handler = "items:GET"
          /\ resp[s].status = 200
          /\ req[s].query.storeName.has /\ req[s].query.status.has )
        => LET q == req[s].query
               matches(row) == row.storeName = q.storeName.v
                               /\ row.progressStatus = q.status.v
           IN /\ \A i \in 1..Len(resp[s].rows) : matches(resp[s].rows[i])
              /\ resp[s].totalCount = Cardinality({row \in items : matches(row)})

\* the direction the table page asks for, in the handler's words
Asked(direction) == IF direction = "ascending" THEN "asc" ELSE "desc"

\* C16 (as claimed): when the table page asks for a column ascending the rows
\* come back ascending on that column, and descending when it asks for
\* descending.
C16_RowsFollowAskedDirection ==
    \A s \in Slots :
        ( /\ ListAnswered(s) /\ ctx[s].handler = "items:GET"
          /\ resp[s].status = 200
          /\ req[s].query.sortBy.has
          /\ req[s].query.sortOrder.has
          /\ req[s].query.sortOrder.v \in {"ascending", "descending"} )
        => LET q    == req[s].query
               rows == resp[s].rows
           IN \A i, j \in 1..Len(rows) :
                 i < j => IF Asked(q.sortOrder.v) = "asc"
                          THEN ItemLe(rows[i], rows[j], q.sortBy.v)
                          ELSE ItemLe(rows[j], rows[i], q.sortBy.v)

\* a <= b / c <= ceil(a / b), without the division
IsCeilOf(total, a, b) ==
    /\ total.finite
    /\ total.n * b >= a
    /\ total.n = 0 \/ (total.n - 1) * b < a

\* page and limit, when given, are integers with page >= 1 and 1 <= limit <= 100
ValidPagination(q) ==
    /\ q.page.has => ~StringToNumber(q.page.v).nan /\ StringToNumber(q.page.v).val >= 1
    /\ q.limit.has => /\ ~StringToNumber(q.limit.v).nan
                      /\ StringToNumber(q.limit.v).val >= 1
                      /\ StringToNumber(q.limit.v).val <= 100

\* the limit a list request asks for (10 when it gives none)
AskedLimit(q) == IF q.limit.has THEN StringToNumber(q.limit.v).val ELSE 10

\* C17: a list response (items or todos) to a request with valid pagination
\* holds at most limit records and its totalPages is ceil(totalCount / limit).
C17_WindowAndTotalPages ==
    \A s \in Slots :
        (ListAnswered(s) /\ resp[s].status = 200 /\ ValidPagination(req[s].query))
        => /\ Len(resp[s].rows) <= AskedLimit(req[s].query)
           /\ IsCeilOf(resp[s].totalPages, resp[s].totalCount, AskedLimit(req[s].query))

\* a list has answered a request for the second page of more records than the
\* limit, and the page is full
C17_Witness ==
    \E s \in Slots :
        /\ ListAnswered(s) /\ resp[s].status = 200
        /\ req[s].query.page = QueryParam(<<"2">>)
        /\ req[s].query.limit.has /\ ValidPagination(req[s].query)
        /\ resp[s].totalCount > AskedLimit(req[s].query)
        /\ resp[s].totalPages.n >= 2
        /\ Len(resp[s].rows) = AskedLimit(req[s].query)

\* C18 (as claimed): a list request whose page is below 1 or whose limit is
\* outside 1..100 is answered 400 and returns no records.
C18_InvalidPaginationAnswered400 ==
    \A s \in Slots :
        (ListAnswered(s) /\ ~ValidPagination(req[s].query))
        => resp[s].status = 400 /\ resp[s].rows = <<>>

(***************************************************************************)
(* SpecUpdate: one signed-in administrator updating items, todos and       *)
(* calendar events, stored or not, while time passes.                      *)
(***************************************************************************)
UpdateRequests ==
    {[Request("PUT", ItemPath(id), GenerateToken(1, 0)) EXCEPT !.body = b] :
        id \in {<<"1">>, <<"3">>},
        b \in {[EmptyObject EXCEPT !.quantity = Num(3)],
               [EmptyObject EXCEPT !.notes = Str("")],
               EmptyObject}}
    \cup {[Request("PUT", TodoPath(id), GenerateToken(1, 0)) EXCEPT !.body = b] :
            id \in {<<"t", "1">>, <<"t", "9">>},
            b \in {[EmptyObject EXCEPT !.completed = Bool(TRUE)],
                   [EmptyObject EXCEPT !.text = Chars(<<" ", "c">>), !.userId = Num(2)],
                   [EmptyObject EXCEPT !.priority = Str("URGENT")]}}
    \cup {[Request("PUT", EventPath(id), GenerateToken(1, 0)) EXCEPT !.body = b] :
            id \in {<<"e", "1">>, <<"e", "9">>},
            b \in {[EmptyObject EXCEPT !.title = Str("c")], EmptyObject}}

NextUpdate ==
    \/ \E s \in SeqSlots : Send(s, UpdateRequests)
    \/ \E s \in SeqSlots : Gate(s)
    \/ \E s \in SeqSlots : ItemPUT(s)
    \/ \E s \in SeqSlots : TodoPUT(s)
    \/ \E s \in SeqSlots : TodoPUTUser(s)
    \/ \E s \in SeqSlots : TodoPUTUpdate(s)
    \/ \E s \in SeqSlots : EventPUT(s)
    \/ \E s \in SeqSlots : Receive(s)
    \/ Tick

SpecUpdate == Init /\ [][NextUpdate]_vars

UpdateHandlers == {"items/[id]:PUT", "todos/[id]:PUT", "events/[id]:PUT"}

ItemFields == {"storeName", "itemName", "quantity", "specification", "deliveryMethod",
               "progressStatus", "notes"}
TodoFields == {"text", "completed", "priority", "deadline", "userId"}
EventFields == {"title", "start", "end", "allDay", "color", "description"}

\* table becomes table2 by one row changing, in the fields the body supplies at
\* most, with its updatedAt set to t
OneRowUpdated(table, table2, body, fields, t) ==
    \E row \in table, row2 \in table2 :
        /\ table2 = (table \ {row}) \cup {row2}
        /\ row2.id = row.id /\ row2.createdAt = row.createdAt
        /\ row2.updatedAt = t
        /\ \A f \in fields : body[f].t = "undef" => row2[f] = row[f]

\* C19 (as claimed): an update answered 200 changes one record, in the fields
\* its payload supplies only, and refreshes that record's modification time; an
\* update of a record that is not stored, unless refused as invalid, is answered
\* 404; and an update not answered 200 changes nothing.
C19_UpdateFrame ==
    [][ \A s \in Slots :
          ( /\ pc[s] # "done" /\ pc'[s] = "done"
            /\ ctx'[s].handler \in UpdateHandlers )
          => /\ resp'[s].status = 200 =>
                  CASE ctx'[s].handler = "items/[id]:PUT" ->
                          /\ OneRowUpdated(items, items', req[s].body, ItemFields, now)
                          /\ UNCHANGED <<users, todos, events>>
                    [] ctx'[s].handler = "todos/[id]:PUT" ->
                          /\ OneRowUpdated(todos, todos', req[s].body, TodoFields, now)
                          /\ UNCHANGED <<users, items, events>>
                    [] OTHER ->
                          /\ \E e \in events, e2 \in events' :
                                /\ events' = (events \ {e}) \cup {e2}
                                /\ \A f \in EventFields :
                                      req[s].body[f].t = "undef" => e2[f] = e[f]
                          /\ UNCHANGED <<users, items, todos>>
             /\ resp'[s].status # 200 => UNCHANGED store
             /\ ( /\ ~InStore(req[s], <<items, todos, events>>)
                  /\ resp'[s].status # 400 )
                => resp'[s].status = 404 ]_vars

\* the row holds the field values the create body gave
SameFieldValues(row, body) ==
    /\ row.storeName = body.storeName.s
    /\ row.itemName = body.itemName.cs
    /\ body.quantity.t = "num" => row.quantity = body.quantity.n
    /\ row.specification = body.specification.s
    /\ row.deliveryMethod = body.deliveryMethod.s
    /\ row.notes = IF body.notes.t = "str" THEN TextOf(body.notes.s) ELSE NoText

\* C20 (as claimed): a create answered 201 stores a new item with the field
\* values of its body, and a GET of a stored item by its id is answered 200 with
\* exactly that item.
C20_CreateThenFetchById ==
    [][ \A s \in Slots :
          (pc[s] # "done" /\ pc'[s] = "done")
          => /\ (ctx'[s].handler = "items:POST" /\ resp'[s].status = 201)
                => \E row \in items' \ items :
                      /\ items' = items \cup {row}
                      /\ SameFieldValues(row, req[s].body)
             /\ ( /\ req[s].method = "GET"
                  /\ Route(req[s].path) = "items/[id]"
                  /\ resp'[s].by # "gate"
                  /\ InStore(req[s], <<items, todos, events>>) )
                => /\ resp'[s].status = 200
                   /\ resp'[s].items =
                         {row \in items :
                             NumberToString(row.id) = Param(req[s].path, PathItems)} ]_vars

(***************************************************************************)
(* SpecConcurrentUpdate: two connections of one signed-in administrator,   *)
(* each sending one update of item 1 or calendar event e1, their steps     *)
(* interleaved.                                                            *)
(***************************************************************************)
ConcurrentUpdateRequests ==
    {[Request("PUT", ItemPath(<<"1">>), GenerateToken(1, 0)) EXCEPT !.body = b] :
        b \in {[EmptyObject EXCEPT !.quantity = Num(3)],
               [EmptyObject EXCEPT !.quantity = Num(5), !.storeName = Str("B")],
               [EmptyObject EXCEPT !.storeName = Str("K")]}}
    \cup {[Request("PUT", EventPath(<<"e", "1">>), GenerateToken(1, 0)) EXCEPT !.body = b] :
            b \in {[EmptyObject EXCEPT !.title = Str("c")],
                   [EmptyObject EXCEPT !.title = Str("b"), !.allDay = Bool(FALSE)]}}

NextConcurrentUpdate ==
    \/ \E s \in Slots : Send(s, ConcurrentUpdateRequests)
    \/ \E s \in Slots : Gate(s)
    \/ \E s \in Slots : ItemPUT(s)
    \/ \E s \in Slots : EventPUT(s)

SpecConcurrentUpdate == Init /\ [][NextConcurrentUpdate]_vars

\* the value field f of an item or event takes from JSON value j
StoredValue(f, j) ==
    CASE f = "quantity" -> QuantityOf(j).val
      [] f = "allDay"   -> j.b
      [] OTHER          -> j.s

\* C21 (as claimed): when two updates of the same stored record have both been
\* answered by their handlers, both are answered 200, and every field that one
\* of them supplies holds the value one of its suppliers gave.
C21_LastWriterWins ==
    \A s, t \in Slots :
        ( /\ s # t
          /\ pc[s] = "done" /\ pc[t] = "done"
          /\ ctx[s].handler \in UpdateHandlers /\ ctx[t].handler = ctx[s].handler
          /\ req[s].path = req[t].path )
        => /\ resp[s].status = 200 /\ resp[t].status = 200
           /\ LET onItem == ctx[s].handler = "items/[id]:PUT"
                  rows   == IF onItem
                            THEN {row \in items :
                                    NumberToString(row.id) = Param(req[s].path, PathItems)}
                            ELSE {row \in events :
                                    row.id = Param(req[s].path, PathEvents)}
                  fields == IF onItem THEN {"quantity", "storeName"}
                            ELSE {"title", "allDay"}
              IN \A row \in rows, f \in fields :
                    LET suppliers == {u \in {s, t} : req[u].body[f].t # "undef"}
                    IN suppliers # {}
                          => \E u \in suppliers : row[f] = StoredValue(f, req[u].body[f])

(***************************************************************************)
(* SpecErrors: one client sending requests whose handling throws, to every *)
(* group of endpoints, with and without a valid token.                     *)
(***************************************************************************)
ErrorRequests ==
    {[Request(t[1], t[2], c) EXCEPT !.body = t[3], !.query = t[4]] :
        c \in {NoCookie, GenerateToken(1, 0), GenerateToken(2, 0)},
        t \in {<<"GET", PathItems, NoBody, [NoQuery EXCEPT !.page = QueryParam(<<"0">>)]>>,
               <<"GET", PathItems, NoBody, [NoQuery EXCEPT !.sortBy = QueryParam("bogus")]>>,
               <<"GET", PathItems, NoBody, NoQuery>>,
               <<"POST", PathItems, NoBody, NoQuery>>,
               <<"POST", PathItems,
                 [EmptyObject EXCEPT !.deliveryMethod = Str("DIRECT")], NoQuery>>,
               <<"POST", PathItems,
                 [EmptyObject EXCEPT !.storeName = Str("B"), !.itemName = Chars(<<"z">>),
                                     !.quantity = Num(3), !.specification = Str("s"),
                                     !.deliveryMethod = Str("DIRECT")], NoQuery>>,
               <<"PUT", ItemPath(<<"1">>),
                 [EmptyObject EXCEPT !.progressStatus = Str("DONE")], NoQuery>>,
               <<"PUT", ItemPath(<<"1">>), NullBody, NoQuery>>,
               <<"PUT", TodoPath(<<"t", "1">>), NoBody, NoQuery>>,
               <<"PUT", TodoPath(<<"t", "1">>), NullBody, NoQuery>>,
               <<"GET", EventPath(<<"e", "1">>), NoBody, NoQuery>>,
               <<"POST", PathEvents, NullBody, NoQuery>>,
               <<"POST", PathLogin, NoBody, NoQuery>>}}

NextErrors ==
    \/ \E s \in SeqSlots : Send(s, ErrorRequests)
    \/ \E s \in SeqSlots : Gate(s)
    \/ \E s \in SeqSlots : ItemsGET(s)
    \/ \E s \in SeqSlots : ItemsGETCount(s)
    \/ \E s \in SeqSlots : ItemPOST(s)
    \/ \E s \in SeqSlots : ItemPUT(s)
    \/ \E s \in SeqSlots : TodoPUT(s)
    \/ \E s \in SeqSlots : EventGET(s)
    \/ \E s \in SeqSlots : EventPOST(s)
    \/ \E s \in SeqSlots : LoginPOST(s)
    \/ \E s \in SeqSlots : Receive(s)

SpecErrors == Init /\ [][NextErrors]_vars

\* C22 (as claimed): with NODE_ENV production no response with status 500 holds
\* the caught error's message.
C22_No500LeaksInProduction ==
    \A s \in Slots :
        (pc[s] = "done" /\ resp[s].status = 500)
        => resp[s].error.production = "generic"

(***************************************************************************)
(* SpecRoles: a client keeps sending the tokens issued on day 0 while days *)
(* pass and the administrator's role is changed in the database.           *)
(***************************************************************************)
Roles == {"ADMIN", "USER"}

RoleRequests ==
    {Request(t[1], t[2], c) :
        t \in {<<"GET", PathItems>>, <<"DELETE", ItemPath(<<"1">>)>>,
               <<"DELETE", ItemPath(<<"2">>)>>, <<"PATCH", ItemPath(<<"1">>)>>},
        c \in {GenerateToken(1, 0), GenerateToken(2, 0)}}

NextRoles ==
    \/ \E s \in SeqSlots : Send(s, RoleRequests)
    \/ \E s \in SeqSlots : Gate(s)
    \/ \E s \in SeqSlots : NoRoute(s)
    \/ \E s \in SeqSlots : ItemsGET(s)
    \/ \E s \in SeqSlots : ItemsGETCount(s)
    \/ \E s \in SeqSlots : ItemDELETE(s)
    \/ \E s \in SeqSlots : Receive(s)
    \/ Tick
    \/ \E role \in Roles : UpdateRole(1, role)

SpecRoles == Init /\ [][NextRoles]_vars

\* the gate is about to run on a mutating request to a gated path whose token
\* verifies for a stored user whose role, changed since the token was issued, is
\* USER
DemotedCallerAtGate(s) ==
    /\ pc[s] = "gate"
    /\ req[s].method \in PROTECTED_METHODS
    /\ IsApiPath(req[s].path) /\ ~IsPublic(req[s].path)
    /\ VerifyToken(req[s].cookie, now).ok
    /\ \E u \in users : /\ NumberToString(u.id) = req[s].cookie.userId
                         /\ u.role = "USER"
                         /\ u \notin SeedUsers
                         /\ req[s].cookie.iat <= u.updatedAt

\* C23: the gate reads the stored role on every request: a mutating request to a
\* gated path, carrying a still-verifying token issued before its user's role
\* was changed from ADMIN to USER, is answered 403 by the gate whenever the role
\* lookup answers, and the store is left as it was.
C23_DemotedRoleRejected ==
    [][\A s \in Slots :
          (DemotedCallerAtGate(s) /\ pc'[s] # "gate" /\ ctx'[s].fault = "none")
          => /\ pc'[s] = "done"
             /\ resp'[s].status = 403
             /\ resp'[s].by = "gate"
             /\ store' = store]_vars

\* the administrator's day-0 token deleted an item, the role was changed to USER
\* on a later day, and the same token's next delete is answered 403 by the gate
C23_Witness ==
    \E s \in Slots :
        /\ RejectedByGate(s, 403)
        /\ req[s].method = "DELETE"
        /\ req[s].cookie = GenerateToken(1, 0)
        /\ ctx[s].fault = "none"
        /\ \E u \in users : u.id = 1 /\ u.role = "USER" /\ u.updatedAt >= 1
                             /\ u.updatedAt <= ctx[s].gateAt
        /\ Cardinality(items) < Cardinality(SeedItems)

(***************************************************************************)
(* The browser: the pages' fetches.  The browser holds an administrator's  *)
(* token; a page's fetch goes out on an idle connection, is answered by    *)
(* the gate and the handlers like any request, and its response is taken   *)
(* by the callback that awaits it.                                         *)
(***************************************************************************)
SessionCookie == GenerateToken(1, 0)

\* response.ok
IsOk(r) == r.status >= 200 /\ r.status <= 299

\* fetch rejects: the request never reaches the server
FetchRejects(s) ==
    /\ pc[s] = "gate"
    /\ req[s].cookie = SessionCookie
    /\ pc' = [pc EXCEPT ![s] = "done"]
    /\ resp' = [resp EXCEPT ![s] = Response(0, "network")]
    /\ UNCHANGED <<store, now, req, ctx, jar, pages>>

\* the callback takes the responses on the connections of `taken` and makes the
\* fetches of `sends` (a function from connections to requests)
Fetching(taken, sends) ==
    /\ \A s \in DOMAIN sends : s \in taken \/ pc[s] = "idle"
    /\ pc' = [s \in Slots |-> IF s \in DOMAIN sends THEN "gate"
                              ELSE IF s \in taken THEN "idle" ELSE pc[s]]
    /\ req' = [s \in Slots |-> IF s \in DOMAIN sends THEN sends[s]
                               ELSE IF s \in taken THEN NoRequest ELSE req[s]]
    /\ ctx' = [s \in Slots |-> IF s \in taken \cup DOMAIN sends THEN NoCtx ELSE ctx[s]]
    /\ resp' = [s \in Slots |-> IF s \in taken \cup DOMAIN sends THEN NoResp ELSE resp[s]]

NoFetch == [s \in {} |-> NoRequest]

\* the elements of a sequence
Range(seq) == {seq[i] : i \in 1..Len(seq)}

\* the ids of a list of rows, in order
IdsOf(rows) == [i \in 1..Len(rows) |-> rows[i].id]

\* every connection of the sequence holds its response
Settled(fetches) == \A s \in Range(fetches) \ {0} : pc[s] = "done"

(***************************************************************************)
(* The table page (app/table/page.tsx, TablePage).                         *)
(***************************************************************************)
\* the user opens the page: the component mounts and its effects are due
OpenTablePage ==
    /\ ~tablePage.mounted /\ ~todoPage.mounted /\ ~calendarPage.mounted
    /\ tablePage' = [TablePageInit EXCEPT !.mounted = TRUE, !.fetchItemsDue = TRUE]
    /\ UNCHANGED <<store, now, pc, req, ctx, resp, jar, todoPage, calendarPage>>

\* the URL fetchItems builds: page, limit, sortBy and sortOrder of sortConfig
\* (createdAt, descending); no store or status filter is chosen
FetchItemsRequest(p) ==
    [Request("GET", PathItems, SessionCookie) EXCEPT
        !.query = [NoQuery EXCEPT !.page = QueryParam(NumberToString(p.currentPage)),
                                  !.limit = QueryParam(NumberToString(p.itemsPerPage)),
                                  !.sortBy = QueryParam("createdAt"),
                                  !.sortOrder = QueryParam("descending")]]

\* fetchItems up to its fetch: setIsLoading(true), setGlobalError(null)
FetchItemsBegun(p, caller) ==
    [p EXCEPT !.isLoading = TRUE, !.globalError = NoMessage, !.fetchItemsDue = FALSE,
              !.running = caller]

\* fetchItems from its response on: the rows, the totals (|| 0), or the error
FetchItemsEnded(p, r) ==
    IF IsOk(r)
    THEN [p EXCEPT !.items = r.rows, !.totalDbItems = r.totalCount,
                   !.serverTotalPages = IF r.totalPages.finite THEN r.totalPages.n ELSE 0,
                   !.isLoading = FALSE]
    ELSE [p EXCEPT !.items = <<>>, !.totalDbItems = 0, !.serverTotalPages = 0,
                   !.globalError = [NoMessage EXCEPT !.kind = "loadFailed"],
                   !.isLoading = FALSE]

\* the form filled from an item: its columns, notes || ""
FormDataOf(item) ==
    [EmptyObject EXCEPT !.storeName = Str(item.storeName),
                        !.itemName = Chars(item.itemName),
                        !.quantity = Num(item.quantity),
                        !.specification = Str(item.specification),
                        !.deliveryMethod = Str(item.deliveryMethod),
                        !.notes = Str(IF item.notes.null THEN "" ELSE item.notes.v),
                        !.progressStatus = Str(item.progressStatus)]

\* finishSequentialEdit, with resetForm
finishSequentialEdit(p) ==
    [p EXCEPT !.isSequentialEditMode = FALSE, !.sequentialEditQueue = <<>>,
              !.currentSequentialEditIndex = 0, !.isAddEditDialogOpen = FALSE,
              !.formData = EmptyFormData, !.editingItem = 0]

\* the effect on [isSequentialEditMode, sequentialEditQueue,
\* currentSequentialEditIndex]: it runs after a render in which one of them
\* changed, and shows the queue's current item or finishes
SequentialEditEffect(p) ==
    IF p.isSequentialEditMode /\ p.sequentialEditQueue # <<>>
    THEN IF p.currentSequentialEditIndex < Len(p.sequentialEditQueue)
         THEN LET currentItem == p.sequentialEditQueue[p.currentSequentialEditIndex + 1]
              IN [p EXCEPT !.editingItem = currentItem.id,
                           !.formData = FormDataOf(currentItem),
                           !.isAddEditDialogOpen = TRUE]
         ELSE finishSequentialEdit(p)
    ELSE IF p.isSequentialEditMode THEN finishSequentialEdit(p)
    ELSE p

\* what the callback that awaited fetchItems does after it
AfterFetchItems(p) ==
    CASE p.running = "confirmBatchDelete:fetchItems" ->
            [p EXCEPT !.isBatchDeleteConfirmOpen = FALSE, !.isLoading = FALSE]
      [] p.running = "confirmSingleDelete:fetchItems" ->
            [p EXCEPT !.isSingleDeleteConfirmOpen = FALSE, !.itemToDelete = 0,
                      !.isLoading = FALSE]
      [] p.running = "handleSave:fetchItems" ->
            IF p.savingSequentially
            THEN SequentialEditEffect(
                    [p EXCEPT !.currentSequentialEditIndex = @ + 1, !.isLoading = FALSE])
            ELSE [p EXCEPT !.isAddEditDialogOpen = FALSE, !.formData = EmptyFormData,
                           !.editingItem = 0, !.isLoading = FALSE]
      [] OTHER -> p

\* useEffect(() => { fetchItems() }, [fetchItems])
TableFetchItems(s) ==
    /\ tablePage.fetchItemsDue
    /\ tablePage.running = ""
    /\ Fetching({}, s :> FetchItemsRequest(tablePage))
    /\ tablePage' = [FetchItemsBegun(tablePage, "fetchItems") EXCEPT !.fetches = <<s>>]
    /\ UNCHANGED <<store, now, jar, todoPage, calendarPage>>

\* the response of fetchItems's fetch arrives
TableFetchItemsSettled ==
    /\ tablePage.running \in {"fetchItems", "confirmBatchDelete:fetchItems",
                              "confirmSingleDelete:fetchItems", "handleSave:fetchItems"}
    /\ Settled(tablePage.fetches)
    /\ Fetching(Range(tablePage.fetches), NoFetch)
    /\ tablePage' = [AfterFetchItems(FetchItemsEnded(tablePage, resp[tablePage.fetches[1]]))
                       EXCEPT !.running = "", !.fetches = <<>>,
                              !.currentSelectedItemIds = <<>>, !.results = <<>>,
                              !.savingSequentially = FALSE]
    /\ UNCHANGED <<store, now, jar, todoPage, calendarPage>>

\* no callback of the page is waiting and no effect is due: the page takes clicks
TableIdle == tablePage.running = "" /\ ~tablePage.fetchItemsDue

\* a dialog is open: the page behind it takes no clicks
DialogOpen(p) ==
    p.isAddEditDialogOpen \/ p.isSingleDeleteConfirmOpen \/ p.isBatchDeleteConfirmOpen

\* handleSelectItem(itemId, checked) on a row of the table
handleSelectItem(itemId, checked) ==
    /\ TableIdle
    /\ ~DialogOpen(tablePage)
    /\ \E i \in 1..Len(tablePage.items) : tablePage.items[i].id = itemId
    /\ checked <=> itemId \notin Range(tablePage.selectedItemIds)
    /\ tablePage' = [tablePage EXCEPT !.selectedItemIds =
                        IF checked THEN Append(@, itemId)
                        ELSE SelectSeq(@, LAMBDA id : id # itemId)]
    /\ UNCHANGED <<store, now, pc, req, ctx, resp, jar, todoPage, calendarPage>>

\* handleSelectAllCurrentPage(checked): the header's checkbox
handleSelectAllCurrentPage(checked) ==
    /\ TableIdle
    /\ ~DialogOpen(tablePage)
    /\ tablePage.items # <<>>
    /\ tablePage' = [tablePage EXCEPT !.selectedItemIds =
                        IF checked THEN IdsOf(tablePage.items) ELSE <<>>]
    /\ tablePage' # tablePage
    /\ UNCHANGED <<store, now, pc, req, ctx, resp, jar, todoPage, calendarPage>>

\* PaginationControls' onPageChange={setCurrentPage}: shown while there are
\* pages; its buttons lead to the pages 1..totalPages; fetchItems runs again
setCurrentPage(page) ==
    /\ TableIdle
    /\ ~DialogOpen(tablePage)
    /\ tablePage.serverTotalPages > 0
    /\ page \in 1..tablePage.serverTotalPages
    /\ page # tablePage.currentPage
    /\ tablePage' = [tablePage EXCEPT !.currentPage = page, !.fetchItemsDue = TRUE]
    /\ UNCHANGED <<store, now, pc, req, ctx, resp, jar, todoPage, calendarPage>>

\* onBatchDeleteClick, and the dialog's onOpenChange(false)
setIsBatchDeleteConfirmOpen(open) ==
    /\ TableIdle
    /\ tablePage.isBatchDeleteConfirmOpen # open
    /\ open => tablePage.selectedItemIds # <<>> /\ ~DialogOpen(tablePage)
    /\ tablePage' = [tablePage EXCEPT !.isBatchDeleteConfirmOpen = open]
    /\ UNCHANGED <<store, now, pc, req, ctx, resp, jar, todoPage, calendarPage>>

\* confirmBatchDelete up to Promise.allSettled: one DELETE per selected id
confirmBatchDelete ==
    /\ TableIdle
    /\ tablePage.isBatchDeleteConfirmOpen
    /\ LET ids == tablePage.selectedItemIds
       IN /\ Len(ids) <= Cardinality(Slots)
          /\ Fetching({}, [s \in 1..Len(ids) |->
                             Request("DELETE", ItemPath(NumberToString(ids[s])),
                                     SessionCookie)])
          /\ tablePage' = [tablePage EXCEPT
                              !.isLoading = TRUE, !.globalError = NoMessage,
                              !.running = "confirmBatchDelete",
                              !.currentSelectedItemIds = ids,
                              !.fetches = [s \in 1..Len(ids) |-> s]]
    /\ UNCHANGED <<store, now, jar, todoPage, calendarPage>>

\* confirmBatchDelete from the settled results on: the selection is emptied, the
\* failures are counted into globalError, then the page steps back (when every
\* row shown was selected on a page after the first) or fetchItems is awaited
confirmBatchDeleteSettled ==
    /\ tablePage.running = "confirmBatchDelete"
    /\ Settled(tablePage.fetches)
    /\ LET p == tablePage
           results == [i \in 1..Len(p.fetches) |-> IsOk(resp[p.fetches[i]])]
           failedDeletes == Cardinality({i \in 1..Len(results) : ~results[i]})
           counted == [p EXCEPT
                          !.selectedItemIds = <<>>,
                          !.results = results,
                          !.globalError =
                              IF failedDeletes > 0
                              THEN [NoMessage EXCEPT !.kind = "batchDeleteFailed",
                                                     !.failed = failedDeletes,
                                                     !.states = {"failed"}]
                              ELSE NoMessage]
       IN IF /\ Len(p.currentSelectedItemIds) = Len(p.items)
             /\ p.currentPage > 1
             /\ \A i \in 1..Len(p.items) : p.items[i].id \in Range(p.currentSelectedItemIds)
          THEN /\ Fetching(Range(p.fetches), NoFetch)
               /\ tablePage' = [counted EXCEPT
                                   !.currentPage = IF @ - 1 > 1 THEN @ - 1 ELSE 1,
                                   !.fetchItemsDue = TRUE,
                                   !.isBatchDeleteConfirmOpen = FALSE,
                                   !.isLoading = FALSE,
                                   !.running = "", !.fetches = <<>>,
                                   !.currentSelectedItemIds = <<>>, !.results = <<>>]
          ELSE \E s \in Slots :
                 /\ Fetching(Range(p.fetches), s :> FetchItemsRequest(p))
                 /\ tablePage' = [FetchItemsBegun(counted, "confirmBatchDelete:fetchItems")
                                    EXCEPT !.fetches = <<s>>]
    /\ UNCHANGED <<store, now, jar, todoPage, calendarPage>>

\* openSingleDeleteConfirmDialog(item): the row's delete button
openSingleDeleteConfirmDialog(itemId) ==
    /\ TableIdle
    /\ ~DialogOpen(tablePage)
    /\ \E i \in 1..Len(tablePage.items) : tablePage.items[i].id = itemId
    /\ tablePage' = [tablePage EXCEPT !.itemToDelete = itemId,
                                      !.isSingleDeleteConfirmOpen = TRUE]
    /\ UNCHANGED <<store, now, pc, req, ctx, resp, jar, todoPage, calendarPage>>

\* the single-delete dialog's cancel button and its dismissal
setIsSingleDeleteConfirmOpen(open) ==
    /\ TableIdle
    /\ ~open /\ tablePage.isSingleDeleteConfirmOpen
    /\ tablePage' = [tablePage EXCEPT !.isSingleDeleteConfirmOpen = open]
    /\ UNCHANGED <<store, now, pc, req, ctx, resp, jar, todoPage, calendarPage>>

\* confirmSingleDelete up to its fetch: the dialog's confirm button
confirmSingleDelete(s) ==
    /\ TableIdle
    /\ tablePage.isSingleDeleteConfirmOpen
    /\ tablePage.itemToDelete # 0
    /\ Fetching({}, s :> Request("DELETE", ItemPath(NumberToString(tablePage.itemToDelete)),
                                 SessionCookie))
    /\ tablePage' = [tablePage EXCEPT !.isLoading = TRUE, !.globalError = NoMessage,
                                      !.running = "confirmSingleDelete",
                                      !.fetches = <<s>>]
    /\ UNCHANGED <<store, now, jar, todoPage, calendarPage>>

\* confirmSingleDelete's finally block
SingleDeleteFinally(p) ==
    [p EXCEPT !.isSingleDeleteConfirmOpen = FALSE, !.itemToDelete = 0, !.isLoading = FALSE]

\* confirmSingleDelete from its response on: after an ok response the id leaves
\* the selection and the page steps back (when the row was the only one shown on
\* a page after the first) or fetchItems is awaited; otherwise the error is shown
confirmSingleDeleteSettled ==
    /\ tablePage.running = "confirmSingleDelete"
    /\ Settled(tablePage.fetches)
    /\ LET p == tablePage
           unselected == [p EXCEPT !.selectedItemIds =
                                      SelectSeq(@, LAMBDA id : id # p.itemToDelete)]
       IN IF ~IsOk(resp[p.fetches[1]])
          THEN /\ Fetching(Range(p.fetches), NoFetch)
               /\ tablePage' = [SingleDeleteFinally(p) EXCEPT
                                   !.globalError = [NoMessage EXCEPT !.kind = "deleteFailed"],
                                   !.running = "", !.fetches = <<>>]
          ELSE IF Len(p.items) = 1 /\ p.currentPage > 1
          THEN /\ Fetching(Range(p.fetches), NoFetch)
               /\ tablePage' = [SingleDeleteFinally(unselected) EXCEPT
                                   !.currentPage = @ - 1, !.fetchItemsDue = TRUE,
                                   !.running = "", !.fetches = <<>>]
          ELSE \E s \in Slots :
                 /\ Fetching(Range(p.fetches), s :> FetchItemsRequest(p))
                 /\ tablePage' = [FetchItemsBegun(unselected, "confirmSingleDelete:fetchItems")
                                    EXCEPT !.fetches = <<s>>]
    /\ UNCHANGED <<store, now, jar, todoPage, calendarPage>>

\* startSequentialEdit: the selected rows of the page, in the page's order
startSequentialEdit ==
    /\ tablePage.mounted
    /\ TableIdle
    /\ ~DialogOpen(tablePage)
    /\ LET itemsToEdit == SelectSeq(tablePage.items,
                                    LAMBDA item : item.id \in Range(tablePage.selectedItemIds))
       IN tablePage' =
            IF itemsToEdit = <<>>
            THEN [tablePage EXCEPT !.globalError = [NoMessage EXCEPT !.kind = "selectFirst"]]
            ELSE SequentialEditEffect(
                    [tablePage EXCEPT !.sequentialEditQueue = itemsToEdit,
                                      !.currentSequentialEditIndex = 0,
                                      !.isSequentialEditMode = TRUE])
    /\ tablePage' # tablePage
    /\ UNCHANGED <<store, now, pc, req, ctx, resp, jar, todoPage, calendarPage>>

\* handleSequentialSkip: the dialog's skip button
handleSequentialSkip ==
    /\ tablePage.isAddEditDialogOpen /\ tablePage.isSequentialEditMode
    /\ tablePage' = SequentialEditEffect(
                       [tablePage EXCEPT !.currentSequentialEditIndex = @ + 1])
    /\ UNCHANGED <<store, now, pc, req, ctx, resp, jar, todoPage, calendarPage>>

\* handleAddEditDialogClose(false): the dialog is dismissed (in sequential mode
\* this is also the stop button, onFinishSequential)
handleAddEditDialogClose ==
    /\ tablePage.isAddEditDialogOpen
    /\ tablePage' = IF tablePage.isSequentialEditMode THEN finishSequentialEdit(tablePage)
                    ELSE [tablePage EXCEPT !.isAddEditDialogOpen = FALSE,
                                           !.formData = EmptyFormData, !.editingItem = 0]
    /\ UNCHANGED <<store, now, pc, req, ctx, resp, jar, todoPage, calendarPage>>

\* handleOpenAddEditDialog(item): a row's edit button, or the add button (0)
handleOpenAddEditDialog(itemId) ==
    /\ tablePage.mounted
    /\ TableIdle
    /\ ~DialogOpen(tablePage)
    /\ itemId = 0 \/ itemId \in Range(IdsOf(tablePage.items))
    /\ LET p == IF tablePage.isSequentialEditMode THEN finishSequentialEdit(tablePage)
                ELSE tablePage
       IN tablePage' =
            IF itemId = 0
            THEN [p EXCEPT !.formData = EmptyFormData, !.editingItem = 0,
                           !.isAddEditDialogOpen = TRUE]
            ELSE LET item == CHOOSE row \in Range(p.items) : row.id = itemId
                 IN [p EXCEPT !.editingItem = itemId, !.formData = FormDataOf(item),
                              !.isAddEditDialogOpen = TRUE]
    /\ UNCHANGED <<store, now, pc, req, ctx, resp, jar, todoPage, calendarPage>>

\* handleFormDataChange(field, value): the user types into the form
handleFormDataChange(field, value) ==
    /\ tablePage.isAddEditDialogOpen
    /\ tablePage.formData[field] # value
    /\ tablePage' = [tablePage EXCEPT !.formData[field] = value]
    /\ UNCHANGED <<store, now, pc, req, ctx, resp, jar, todoPage, calendarPage>>

\* handleSave up to its fetch: PUT for the item being edited, POST for a new one
handleSave(s) ==
    /\ tablePage.isAddEditDialogOpen
    /\ ~tablePage.isLoading
    /\ TableIdle
    /\ LET itemToSave == tablePage.editingItem
           saveData == tablePage.formData
       IN Fetching({}, s :> [Request(IF itemToSave # 0 THEN "PUT" ELSE "POST",
                                     IF itemToSave # 0
                                     THEN ItemPath(NumberToString(itemToSave))
                                     ELSE PathItems,
                                     SessionCookie) EXCEPT !.body = saveData])
    /\ tablePage' = [tablePage EXCEPT
                        !.isLoading = TRUE, !.globalError = NoMessage,
                        !.running = "handleSave", !.fetches = <<s>>,
                        !.savingSequentially = tablePage.isSequentialEditMode]
    /\ UNCHANGED <<store, now, jar, todoPage, calendarPage>>

SaveFailedClosingTheForm(p) ==
    [p EXCEPT !.globalError = [NoMessage EXCEPT !.kind = "saveFailed"],
              !.isAddEditDialogOpen = FALSE,
              !.formData = EmptyFormData, !.editingItem = 0,
              !.isLoading = FALSE]

\* handleSave's else and catch branches, and finally: the error is shown (and in
\* sequential mode the dialog is opened); the form is not touched
SaveFailed(p) ==
    [p EXCEPT !.globalError = [NoMessage EXCEPT !.kind = "saveFailed"],
              !.isAddEditDialogOpen = p.savingSequentially \/ @,
              !.isLoading = FALSE]

\* handleSave from its response on: fetchItems is awaited after an ok response
handleSaveSettled ==
    /\ tablePage.running = "handleSave"
    /\ Settled(tablePage.fetches)
    /\ LET p == tablePage
           s == p.fetches[1]
       IN IF IsOk(resp[s])
          THEN /\ Fetching({s}, s :> FetchItemsRequest(p))
               /\ tablePage' = FetchItemsBegun(p, "handleSave:fetchItems")
          ELSE /\ Fetching({s}, NoFetch)
               /\ tablePage' = [SaveFailed(p) EXCEPT !.running = "", !.fetches = <<>>,
                                                      !.savingSequentially = FALSE]
    /\ UNCHANGED <<store, now, jar, todoPage, calendarPage>>

(***************************************************************************)
(* The todo page (app/todo/page.tsx, TodoPage).  fetchTodos is called and  *)
(* not awaited: a call sets fetchTodosDue, and the fetch goes out when no  *)
(* fetchTodos is in flight.                                                *)
(***************************************************************************)
ITEMS_PER_PAGE == 10

OpenTodoPage ==
    /\ ~tablePage.mounted /\ ~todoPage.mounted /\ ~calendarPage.mounted
    /\ todoPage' = [TodoPageInit EXCEPT !.mounted = TRUE, !.fetchTodosDue = TRUE]
    /\ UNCHANGED <<store, now, pc, req, ctx, resp, jar, tablePage, calendarPage>>

\* the URL fetchTodos builds: page and limit, and the filters that are set
\* (no element of the page sets filters.userId)
FetchTodosRequest(p) ==
    [Request("GET", PathTodos, SessionCookie) EXCEPT
        !.query = [NoQuery EXCEPT
                      !.page = QueryParam(NumberToString(p.currentPage)),
                      !.limit = QueryParam(NumberToString(ITEMS_PER_PAGE)),
                      !.completed = IF p.filters.completed # "all"
                                    THEN QueryParam(p.filters.completed) ELSE NoAtom,
                      !.priority = IF p.filters.priority # "all"
                                   THEN QueryParam(p.filters.priority) ELSE NoAtom,
                      !.search = IF TrimChars(p.filters.search) # <<>>
                                 THEN QueryParam(TrimChars(p.filters.search)) ELSE NoParam]]

\* fetchTodos from its response on
FetchTodosEnded(p, r) ==
    IF IsOk(r)
    THEN [p EXCEPT !.todos = r.rows,
                   !.totalPages = IF r.totalPages.finite THEN r.totalPages.n ELSE 0,
                   !.totalCount = r.totalCount,
                   !.selectedTodoIds = SelectSeq(@, LAMBDA id : id \in Range(IdsOf(r.rows))),
                   !.loading = FALSE]
    ELSE [p EXCEPT !.error = "message",
                   !.toast = [NoMessage EXCEPT !.kind = "error"],
                   !.loading = FALSE]

\* fetchTodos up to its fetch (the effect, or a callback's call)
TodoFetchTodos(s) ==
    /\ todoPage.fetchTodosDue
    /\ todoPage.listFetch = 0
    /\ s \notin Range(todoPage.fetches)
    /\ Fetching({}, s :> FetchTodosRequest(todoPage))
    /\ todoPage' = [todoPage EXCEPT !.loading = TRUE, !.error = "",
                                    !.fetchTodosDue = FALSE, !.listFetch = s]
    /\ UNCHANGED <<store, now, jar, tablePage, calendarPage>>

TodoFetchTodosSettled ==
    /\ todoPage.listFetch # 0
    /\ pc[todoPage.listFetch] = "done"
    /\ Fetching({todoPage.listFetch}, NoFetch)
    /\ todoPage' = [FetchTodosEnded(todoPage, resp[todoPage.listFetch])
                      EXCEPT !.listFetch = 0]
    /\ UNCHANGED <<store, now, jar, tablePage, calendarPage>>

handleToggleSelectTodo(id) ==
    /\ id \in Range(IdsOf(todoPage.todos))
    /\ todoPage' = [todoPage EXCEPT !.selectedTodoIds =
                       IF id \in Range(@) THEN SelectSeq(@, LAMBDA x : x # id)
                       ELSE Append(@, id)]
    /\ UNCHANGED <<store, now, pc, req, ctx, resp, jar, tablePage, calendarPage>>

\* handleSelectAllTodos: all the todos shown, or none when all were selected
handleSelectAllTodos ==
    /\ todoPage.todos # <<>>
    /\ todoPage' = [todoPage EXCEPT !.selectedTodoIds =
                       IF Len(@) = Len(todoPage.todos) THEN <<>> ELSE IdsOf(todoPage.todos)]
    /\ UNCHANGED <<store, now, pc, req, ctx, resp, jar, tablePage, calendarPage>>

\* handleFilterChange(key, value): the filter is set, the page is 1, and
\* fetchTodos runs again
handleFilterChange(key, value) ==
    /\ todoPage.mounted
    /\ todoPage.filters[key] # value
    /\ todoPage' = [todoPage EXCEPT !.filters[key] = value, !.currentPage = 1,
                                    !.fetchTodosDue = TRUE]
    /\ UNCHANGED <<store, now, pc, req, ctx, resp, jar, tablePage, calendarPage>>

\* handleBatchDelete: the toast that asks, or the error toast without a selection
handleBatchDelete ==
    /\ todoPage.mounted
    /\ todoPage.confirm = NoConfirm
    /\ todoPage.running = ""
    /\ todoPage' = IF todoPage.selectedTodoIds = <<>>
                   THEN [todoPage EXCEPT !.toast = [NoMessage EXCEPT !.kind = "error"]]
                   ELSE [todoPage EXCEPT !.confirm = [kind |-> "batchDelete",
                                                      ids |-> todoPage.selectedTodoIds]]
    /\ todoPage' # todoPage
    /\ UNCHANGED <<store, now, pc, req, ctx, resp, jar, tablePage, calendarPage>>

\* the toast's cancel button, or its 5 seconds running out
TodoConfirmCancelled(clicked) ==
    /\ todoPage.confirm # NoConfirm
    /\ todoPage' = [todoPage EXCEPT
                       !.confirm = NoConfirm,
                       !.toast = IF clicked THEN [NoMessage EXCEPT !.kind = "info"] ELSE @]
    /\ UNCHANGED <<store, now, pc, req, ctx, resp, jar, tablePage, calendarPage>>

\* the action button of the batch toast: one DELETE per id, Promise.all
TodoBatchDeleteClicked ==
    /\ todoPage.confirm.kind = "batchDelete"
    /\ todoPage.running = ""
    /\ LET ids == todoPage.confirm.ids
       IN /\ Len(ids) <= Cardinality(Slots)
          /\ Fetching({}, [s \in 1..Len(ids) |->
                             Request("DELETE", TodoPath(ids[s]), SessionCookie)])
          /\ todoPage' = [todoPage EXCEPT
                             !.confirm = NoConfirm,
                             !.toast = [NoMessage EXCEPT !.kind = "loading"],
                             !.running = "handleBatchDelete",
                             !.ids = ids, !.fetches = [s \in 1..Len(ids) |-> s],
                             !.promises = [s \in 1..Len(ids) |-> "pending"]]
    /\ UNCHANGED <<store, now, jar, tablePage, calendarPage>>

\* the promises after connection s was taken: its promise is fulfilled or
\* rejected as its response was ok or not; connection 0 is a taken one
Taken(fetches, s) == [i \in 1..Len(fetches) |-> IF fetches[i] = s THEN 0 ELSE fetches[i]]

SettledAs(p, s) ==
    [i \in 1..Len(p.fetches) |->
        IF p.fetches[i] = s THEN (IF IsOk(resp[s]) THEN "fulfilled" ELSE "rejected")
        ELSE p.promises[i]]

\* Promise.all is fulfilled: every DELETE was answered ok
TodoBatchDeleteFulfilled ==
    /\ todoPage.running = "handleBatchDelete"
    /\ Settled(todoPage.fetches)
    /\ \A s \in Range(todoPage.fetches) \ {0} : IsOk(resp[s])
    /\ Fetching(Range(todoPage.fetches) \ {0}, NoFetch)
    /\ todoPage' = [todoPage EXCEPT
                       !.fetchTodosDue = TRUE, !.selectedTodoIds = <<>>,
                       !.toast = [NoMessage EXCEPT !.kind = "success",
                                                   !.succeeded = Len(todoPage.ids),
                                                   !.states = {"succeeded"}],
                       !.running = "",
                       !.fetches = [i \in 1..Len(@) |-> 0],
                       !.promises = [i \in 1..Len(@) |-> "fulfilled"]]
    /\ UNCHANGED <<store, now, jar, tablePage, calendarPage>>

\* Promise.all is rejected by the first DELETE that is answered not ok or fails:
\* fetchTodos, and a toast with that failure's message; the other requests go on
TodoBatchDeleteRejected(s) ==
    /\ todoPage.running = "handleBatchDelete"
    /\ s \in Range(todoPage.fetches) \ {0}
    /\ pc[s] = "done" /\ ~IsOk(resp[s])
    /\ Fetching({s}, NoFetch)
    /\ todoPage' = [todoPage EXCEPT
                       !.fetchTodosDue = TRUE,
                       !.toast = [NoMessage EXCEPT !.kind = "batchDeleteError"],
                       !.running = IF Range(Taken(todoPage.fetches, s)) = {0} THEN ""
                                   ELSE "handleBatchDelete:rejected",
                       !.fetches = Taken(@, s),
                       !.promises = SettledAs(todoPage, s)]
    /\ UNCHANGED <<store, now, jar, tablePage, calendarPage>>

\* a DELETE is answered while Promise.all waits for the others, or after it was
\* rejected (then nothing looks at the answer)
TodoBatchDeleteAnswered(s) ==
    /\ \/ todoPage.running = "handleBatchDelete:rejected"
       \/ /\ todoPage.running = "handleBatchDelete"
          /\ IsOk(resp[s])
          /\ Range(Taken(todoPage.fetches, s)) # {0}
    /\ s \in Range(todoPage.fetches) \ {0}
    /\ pc[s] = "done"
    /\ Fetching({s}, NoFetch)
    /\ todoPage' = [todoPage EXCEPT
                       !.running = IF Range(Taken(todoPage.fetches, s)) = {0} THEN "" ELSE @,
                       !.fetches = Taken(@, s),
                       !.promises = SettledAs(todoPage, s)]
    /\ UNCHANGED <<store, now, jar, tablePage, calendarPage>>

\* handleBatchUpdateCompletion(completed) and performBatchUpdate up to
\* Promise.all: one PUT per selected id, or the error toast without a selection
handleBatchUpdateCompletion(completed) ==
    /\ todoPage.mounted
    /\ todoPage.running = ""
    /\ LET ids == todoPage.selectedTodoIds
       IN IF ids = <<>>
          THEN /\ todoPage' = [todoPage EXCEPT !.toast = [NoMessage EXCEPT !.kind = "error"]]
               /\ todoPage' # todoPage
               /\ UNCHANGED <<pc, req, ctx, resp>>
          ELSE /\ Len(ids) <= Cardinality(Slots)
               /\ Fetching({}, [s \in 1..Len(ids) |->
                                  [Request("PUT", TodoPath(ids[s]), SessionCookie) EXCEPT
                                      !.body = [EmptyObject EXCEPT
                                                   !.completed = Bool(completed)]]])
               /\ todoPage' = [todoPage EXCEPT
                                  !.toast = [NoMessage EXCEPT !.kind = "loading"],
                                  !.running = "performBatchUpdate",
                                  !.ids = ids, !.fetches = [s \in 1..Len(ids) |-> s],
                                  !.promises = [s \in 1..Len(ids) |-> "pending"]]
    /\ UNCHANGED <<store, now, jar, tablePage, calendarPage>>

\* Promise.all is fulfilled: every PUT was answered ok
performBatchUpdateFulfilled ==
    /\ todoPage.running = "performBatchUpdate"
    /\ Settled(todoPage.fetches)
    /\ \A s \in Range(todoPage.fetches) \ {0} : IsOk(resp[s])
    /\ Fetching(Range(todoPage.fetches) \ {0}, NoFetch)
    /\ todoPage' = [todoPage EXCEPT
                       !.fetchTodosDue = TRUE, !.selectedTodoIds = <<>>,
                       !.toast = [NoMessage EXCEPT !.kind = "success",
                                                   !.succeeded = Len(todoPage.ids),
                                                   !.states = {"succeeded"}],
                       !.running = "",
                       !.fetches = [i \in 1..Len(@) |-> 0],
                       !.promises = [i \in 1..Len(@) |-> "fulfilled"]]
    /\ UNCHANGED <<store, now, jar, tablePage, calendarPage>>

\* Promise.all is rejected by the first PUT that is answered not ok or fails:
\* fetchTodos, and a toast with that failure's message; the other requests go on
performBatchUpdateRejected(s) ==
    /\ todoPage.running = "performBatchUpdate"
    /\ s \in Range(todoPage.fetches) \ {0}
    /\ pc[s] = "done" /\ ~IsOk(resp[s])
    /\ Fetching({s}, NoFetch)
    /\ todoPage' = [todoPage EXCEPT
                       !.fetchTodosDue = TRUE,
                       !.toast = [NoMessage EXCEPT !.kind = "batchUpdateError"],
                       !.running = IF Range(Taken(todoPage.fetches, s)) = {0} THEN ""
                                   ELSE "performBatchUpdate:rejected",
                       !.fetches = Taken(@, s),
                       !.promises = SettledAs(todoPage, s)]
    /\ UNCHANGED <<store, now, jar, tablePage, calendarPage>>

\* a PUT is answered while Promise.all waits for the others, or after it was
\* rejected (then nothing looks at the answer)
performBatchUpdateAnswered(s) ==
    /\ \/ todoPage.running = "performBatchUpdate:rejected"
       \/ /\ todoPage.running = "performBatchUpdate"
          /\ IsOk(resp[s])
          /\ Range(Taken(todoPage.fetches, s)) # {0}
    /\ s \in Range(todoPage.fetches) \ {0}
    /\ pc[s] = "done"
    /\ Fetching({s}, NoFetch)
    /\ todoPage' = [todoPage EXCEPT
                       !.running = IF Range(Taken(todoPage.fetches, s)) = {0} THEN "" ELSE @,
                       !.fetches = Taken(@, s),
                       !.promises = SettledAs(todoPage, s)]
    /\ UNCHANGED <<store, now, jar, tablePage, calendarPage>>

\* deleteSingleTodo(id): the toast that asks
deleteSingleTodo(id) ==
    /\ \E i \in 1..Len(todoPage.todos) : todoPage.todos[i].id = id
    /\ todoPage.confirm = NoConfirm
    /\ todoPage.running = ""
    /\ todoPage' = [todoPage EXCEPT !.confirm = [kind |-> "delete", ids |-> <<id>>]]
    /\ UNCHANGED <<store, now, pc, req, ctx, resp, jar, tablePage, calendarPage>>

TodoDeleteUnasked(s) ==
    /\ todoPage.confirm = NoConfirm
    /\ todoPage.todos # <<>>
    /\ todoPage.running = ""
    /\ Fetching({}, s :> Request("DELETE", TodoPath(todoPage.todos[1].id), SessionCookie))
    /\ todoPage' = [todoPage EXCEPT !.toast = [NoMessage EXCEPT !.kind = "loading"],
                                    !.running = "deleteSingleTodo",
                                    !.ids = <<todoPage.todos[1].id>>, !.fetches = <<s>>]
    /\ UNCHANGED <<store, now, jar, tablePage, calendarPage>>

\* the action button of deleteSingleTodo's toast: the DELETE
TodoDeleteClicked(s) ==
    /\ todoPage.confirm.kind = "delete"
    /\ todoPage.running = ""
    /\ Fetching({}, s :> Request("DELETE", TodoPath(todoPage.confirm.ids[1]), SessionCookie))
    /\ todoPage' = [todoPage EXCEPT !.confirm = NoConfirm,
                                    !.toast = [NoMessage EXCEPT !.kind = "loading"],
                                    !.running = "deleteSingleTodo",
                                    !.ids = todoPage.confirm.ids, !.fetches = <<s>>]
    /\ UNCHANGED <<store, now, jar, tablePage, calendarPage>>

\* deleteSingleTodo's toast.promise: success re-fetches and takes the id out of
\* the selection; error shows the message
deleteSingleTodoSettled ==
    /\ todoPage.running = "deleteSingleTodo"
    /\ Settled(todoPage.fetches)
    /\ Fetching(Range(todoPage.fetches), NoFetch)
    /\ todoPage' =
         IF IsOk(resp[todoPage.fetches[1]])
         THEN [todoPage EXCEPT !.fetchTodosDue = TRUE,
                               !.selectedTodoIds =
                                   SelectSeq(@, LAMBDA id : id # todoPage.ids[1]),
                               !.toast = [NoMessage EXCEPT !.kind = "success"],
                               !.running = "", !.fetches = <<>>, !.ids = <<>>]
         ELSE [todoPage EXCEPT !.toast = [NoMessage EXCEPT !.kind = "error"],
                               !.running = "", !.fetches = <<>>, !.ids = <<>>]
    /\ UNCHANGED <<store, now, jar, tablePage, calendarPage>>

\* the create button (resetForm, open) and the dialog's dismissal (close,
\* resetForm)
setIsCreateDialogOpen(open) ==
    /\ todoPage.mounted
    /\ todoPage.isCreateDialogOpen # open
    /\ ~todoPage.isEditDialogOpen
    /\ todoPage' = [todoPage EXCEPT !.isCreateDialogOpen = open,
                                    !.formData = InitialTodoFormData]
    /\ UNCHANGED <<store, now, pc, req, ctx, resp, jar, tablePage, calendarPage>>

\* the user types the todo's text
TodoSetText(text) ==
    /\ todoPage.isCreateDialogOpen \/ todoPage.isEditDialogOpen
    /\ todoPage.formData.text # Chars(text)
    /\ todoPage' = [todoPage EXCEPT !.formData.text = Chars(text)]
    /\ UNCHANGED <<store, now, pc, req, ctx, resp, jar, tablePage, calendarPage>>

\* handleCreateSubmit and createTodo up to its fetch: an empty text is refused
\* with a toast, otherwise the form is POSTed (deadline || null)
handleCreateSubmit(s) ==
    /\ todoPage.isCreateDialogOpen
    /\ todoPage.running = ""
    /\ IF TrimChars(todoPage.formData.text.cs) = <<>>
       THEN /\ todoPage' = [todoPage EXCEPT !.toast = [NoMessage EXCEPT !.kind = "error"]]
            /\ todoPage' # todoPage
            /\ UNCHANGED <<pc, req, ctx, resp>>
       ELSE /\ Fetching({}, s :> [Request("POST", PathTodos, SessionCookie)
                                    EXCEPT !.body = todoPage.formData])
            /\ todoPage' = [todoPage EXCEPT !.toast = [NoMessage EXCEPT !.kind = "loading"],
                                            !.running = "createTodo", !.fetches = <<s>>]
    /\ UNCHANGED <<store, now, jar, tablePage, calendarPage>>

\* createTodo's toast.promise: success re-fetches, closes the dialog and resets
\* the form; error shows the message and nothing else
createTodoSettled ==
    /\ todoPage.running = "createTodo"
    /\ Settled(todoPage.fetches)
    /\ Fetching(Range(todoPage.fetches), NoFetch)
    /\ todoPage' =
         IF IsOk(resp[todoPage.fetches[1]])
         THEN [todoPage EXCEPT !.fetchTodosDue = TRUE, !.isCreateDialogOpen = FALSE,
                               !.formData = InitialTodoFormData,
                               !.toast = [NoMessage EXCEPT !.kind = "success"],
                               !.running = "", !.fetches = <<>>]
         ELSE [todoPage EXCEPT !.toast = [NoMessage EXCEPT !.kind = "error"],
                               !.running = "", !.fetches = <<>>]
    /\ UNCHANGED <<store, now, jar, tablePage, calendarPage>>

\* openEditDialog: the form is filled from the row
openEditDialog(todo) ==
    /\ \E i \in 1..Len(todoPage.todos) : todoPage.todos[i] = todo
    /\ ~todoPage.isCreateDialogOpen /\ ~todoPage.isEditDialogOpen
    /\ todoPage' = [todoPage EXCEPT
          !.editingTodo = todo.id,
          !.formData = [EmptyObject EXCEPT
                           !.text = Chars(todo.text), !.priority = Str(todo.priority),
                           !.completed = Bool(todo.completed),
                           !.userId = IF todo.userId = 0 THEN Null ELSE Num(todo.userId),
                           !.deadline = IF todo.deadline.set THEN DateStr(todo.deadline.t)
                                        ELSE Null],
          !.isEditDialogOpen = TRUE]
    /\ UNCHANGED <<store, now, pc, req, ctx, resp, jar, tablePage, calendarPage>>

\* the edit dialog's onOpenChange(false) and its cancel button
TodoEditDialogClose ==
    /\ todoPage.isEditDialogOpen
    /\ todoPage' = [todoPage EXCEPT !.isEditDialogOpen = FALSE, !.editingTodo = <<>>,
                                    !.formData = InitialTodoFormData]
    /\ UNCHANGED <<store, now, pc, req, ctx, resp, jar, tablePage, calendarPage>>

\* handleEditSubmit and updateTodo up to its fetch
handleEditSubmit(s) ==
    /\ todoPage.isEditDialogOpen
    /\ todoPage.editingTodo # <<>>
    /\ todoPage.running = ""
    /\ IF TrimChars(todoPage.formData.text.cs) = <<>>
       THEN /\ todoPage' = [todoPage EXCEPT !.toast = [NoMessage EXCEPT !.kind = "error"]]
            /\ todoPage' # todoPage
            /\ UNCHANGED <<pc, req, ctx, resp>>
       ELSE /\ Fetching({}, s :> [Request("PUT", TodoPath(todoPage.editingTodo), SessionCookie)
                                    EXCEPT !.body = todoPage.formData])
            /\ todoPage' = [todoPage EXCEPT !.toast = [NoMessage EXCEPT !.kind = "loading"],
                                            !.running = "updateTodo", !.fetches = <<s>>,
                                            !.ids = <<todoPage.editingTodo>>]
    /\ UNCHANGED <<store, now, jar, tablePage, calendarPage>>

\* updateTodo's toast.promise: success re-fetches and, when the dialog it was
\* called from showed this todo, closes it and resets the form; error shows the
\* message and nothing else
updateTodoSettled ==
    /\ todoPage.running = "updateTodo"
    /\ Settled(todoPage.fetches)
    /\ Fetching(Range(todoPage.fetches), NoFetch)
    /\ todoPage' =
         IF IsOk(resp[todoPage.fetches[1]])
         THEN [todoPage EXCEPT !.fetchTodosDue = TRUE, !.isEditDialogOpen = FALSE,
                               !.editingTodo = <<>>, !.formData = InitialTodoFormData,
                               !.toast = [NoMessage EXCEPT !.kind = "success"],
                               !.running = "", !.fetches = <<>>, !.ids = <<>>]
         ELSE [todoPage EXCEPT !.toast = [NoMessage EXCEPT !.kind = "error"],
                               !.running = "", !.fetches = <<>>, !.ids = <<>>]
    /\ UNCHANGED <<store, now, jar, tablePage, calendarPage>>

(***************************************************************************)
(* The calendar page (app/calendar/page.tsx, CalendarPage and EventModal). *)
(* The calendar shows the days 0..MaxTime.                                 *)
(***************************************************************************)
\* the page mounts; FullCalendar's datesSet calls fetchEvents
OpenCalendarPage ==
    /\ ~tablePage.mounted /\ ~todoPage.mounted /\ ~calendarPage.mounted
    /\ calendarPage' = [CalendarPageInit EXCEPT !.mounted = TRUE, !.fetchEventsDue = TRUE]
    /\ UNCHANGED <<store, now, pc, req, ctx, resp, jar, tablePage, todoPage>>

\* fetchEvents up to its fetch
CalendarFetchEvents(s) ==
    /\ calendarPage.fetchEventsDue
    /\ calendarPage.listFetch = 0
    /\ s \notin Range(calendarPage.fetches)
    /\ Fetching({}, s :> [Request("GET", PathEvents, SessionCookie) EXCEPT
                            !.query = [NoQuery EXCEPT !.start = DateStr(0),
                                                      !.end = DateStr(MaxTime)]])
    /\ calendarPage' = [calendarPage EXCEPT !.isLoading = TRUE, !.fetchEventsDue = FALSE,
                                            !.listFetch = s]
    /\ UNCHANGED <<store, now, jar, tablePage, todoPage>>

\* fetchEvents from its response on
CalendarFetchEventsSettled ==
    /\ calendarPage.listFetch # 0
    /\ calendarPage.confirm = NoConfirm
    /\ pc[calendarPage.listFetch] = "done"
    /\ Fetching({calendarPage.listFetch}, NoFetch)
    /\ LET r == resp[calendarPage.listFetch]
       IN calendarPage' =
            IF IsOk(r)
            THEN [calendarPage EXCEPT !.events = r.events, !.isLoading = FALSE,
                                      !.listFetch = 0]
            ELSE [calendarPage EXCEPT !.events = {}, !.isLoading = FALSE,
                                      !.toast = [NoMessage EXCEPT !.kind = "error"],
                                      !.listFetch = 0]
    /\ UNCHANGED <<store, now, jar, tablePage, todoPage>>

\* EventModal's effect on [eventData]: the form is filled from the data
EventModalForm(data) ==
    [EmptyObject EXCEPT !.title = Str(data.title), !.start = DateStr(data.start),
                        !.end = IF data.end.set THEN DateStr(data.end.t) ELSE Null,
                        !.allDay = Bool(data.allDay),
                        !.color = Str(IF data.color = "" THEN "#3B82F6" ELSE data.color),
                        !.description = Str(data.description)]

\* handleDateSelect: a day of the calendar is selected
handleDateSelect(day) ==
    /\ calendarPage.mounted
    /\ ~calendarPage.isModalOpen
    /\ calendarPage.confirm = NoConfirm
    /\ LET data == [NoEvent EXCEPT !.start = day, !.end = EndAt(day + 1), !.allDay = TRUE]
       IN calendarPage' = [calendarPage EXCEPT
                              !.selectedEventData = [null |-> FALSE, data |-> data],
                              !.modalMode = "create", !.isModalOpen = TRUE,
                              !.form = EventModalForm(data)]
    /\ UNCHANGED <<store, now, pc, req, ctx, resp, jar, tablePage, todoPage>>

\* handleEventClick: an event the calendar shows is clicked
handleEventClick(event) ==
    /\ event \in calendarPage.events
    /\ ~calendarPage.isModalOpen
    /\ calendarPage.confirm = NoConfirm
    /\ calendarPage' = [calendarPage EXCEPT
                           !.selectedEventData = [null |-> FALSE, data |-> event],
                           !.modalMode = "edit", !.isModalOpen = TRUE,
                           !.form = EventModalForm(event)]
    /\ UNCHANGED <<store, now, pc, req, ctx, resp, jar, tablePage, todoPage>>

\* the modal's onClose
CalendarModalClose ==
    /\ calendarPage.isModalOpen
    /\ calendarPage.confirm = NoConfirm
    /\ calendarPage' = [calendarPage EXCEPT !.isModalOpen = FALSE,
                                            !.selectedEventData = NoSelectedEventData,
                                            !.form = EmptyObject]
    /\ UNCHANGED <<store, now, pc, req, ctx, resp, jar, tablePage, todoPage>>

\* the user types the event's title
CalendarSetTitle(title) ==
    /\ calendarPage.isModalOpen
    /\ calendarPage.confirm = NoConfirm
    /\ calendarPage.form.title # Str(title)
    /\ calendarPage' = [calendarPage EXCEPT !.form.title = Str(title)]
    /\ UNCHANGED <<store, now, pc, req, ctx, resp, jar, tablePage, todoPage>>

\* what handleSubmit hands to onSave: the trimmed title, end only when the
\* event is not all-day, description undefined when empty
SubmissionData(form) ==
    [form EXCEPT !.title = Str(Trim(form.title.s)),
                 !.end = IF ~form.allDay.b /\ form.end.t = "date" THEN @ ELSE Null,
                 !.description = IF form.description.s = "" THEN Undef ELSE @]

\* EventModal's handleSubmit and handleModalSave up to its fetch: a title that
\* trims to nothing is refused with a toast; POST creates, PUT edits
handleModalSave(s) ==
    /\ calendarPage.isModalOpen
    /\ calendarPage.confirm = NoConfirm
    /\ calendarPage.running = ""
    /\ IF Trim(calendarPage.form.title.s) = ""
       THEN /\ calendarPage' = [calendarPage EXCEPT
                                   !.toast = [NoMessage EXCEPT !.kind = "error"]]
            /\ calendarPage' # calendarPage
            /\ UNCHANGED <<pc, req, ctx, resp>>
       ELSE /\ Fetching({}, s :>
                 [Request(IF calendarPage.modalMode = "create" THEN "POST" ELSE "PUT",
                          IF calendarPage.modalMode = "create" THEN PathEvents
                          ELSE EventPath(calendarPage.selectedEventData.data.id),
                          SessionCookie)
                    EXCEPT !.body = SubmissionData(calendarPage.form)])
            /\ calendarPage' = [calendarPage EXCEPT !.running = "handleModalSave",
                                                    !.fetches = <<s>>]
    /\ UNCHANGED <<store, now, jar, tablePage, todoPage>>

\* handleModalSave from its response on: a failure is a toast and nothing else;
\* after an ok response the modal is closed and the events are fetched again
handleModalSaveSettled ==
    /\ calendarPage.running = "handleModalSave"
    /\ calendarPage.confirm = NoConfirm
    /\ Settled(calendarPage.fetches)
    /\ Fetching(Range(calendarPage.fetches), NoFetch)
    /\ calendarPage' =
         IF IsOk(resp[calendarPage.fetches[1]])
         THEN [calendarPage EXCEPT !.toast = [NoMessage EXCEPT !.kind = "success"],
                                   !.isModalOpen = FALSE,
                                   !.selectedEventData = NoSelectedEventData,
                                   !.form = EmptyObject,
                                   !.fetchEventsDue = TRUE,
                                   !.running = "", !.fetches = <<>>]
         ELSE [calendarPage EXCEPT !.toast = [NoMessage EXCEPT !.kind = "error"],
                                   !.running = "", !.fetches = <<>>]
    /\ UNCHANGED <<store, now, jar, tablePage, todoPage>>

\* handleModalDelete up to window.confirm: the modal's delete button, shown in
\* edit mode, asks
handleModalDelete ==
    /\ calendarPage.isModalOpen
    /\ calendarPage.modalMode = "edit"
    /\ calendarPage.confirm = NoConfirm
    /\ calendarPage.running = ""
    /\ calendarPage' = [calendarPage EXCEPT !.confirm =
                           [kind |-> "delete",
                            ids |-> <<calendarPage.selectedEventData.data.id>>]]
    /\ UNCHANGED <<store, now, pc, req, ctx, resp, jar, tablePage, todoPage>>

\* window.confirm returns: false ends handleModalDelete, true makes the DELETE
WindowConfirmReturns(ok, s) ==
    /\ calendarPage.confirm.kind = "delete"
    /\ IF ok
       THEN /\ Fetching({}, s :> Request("DELETE", EventPath(calendarPage.confirm.ids[1]),
                                         SessionCookie))
            /\ calendarPage' = [calendarPage EXCEPT !.confirm = NoConfirm,
                                                    !.running = "handleModalDelete",
                                                    !.fetches = <<s>>]
       ELSE /\ calendarPage' = [calendarPage EXCEPT !.confirm = NoConfirm]
            /\ UNCHANGED <<pc, req, ctx, resp>>
    /\ UNCHANGED <<store, now, jar, tablePage, todoPage>>

\* handleModalDelete from its response on
handleModalDeleteSettled ==
    /\ calendarPage.running = "handleModalDelete"
    /\ Settled(calendarPage.fetches)
    /\ Fetching(Range(calendarPage.fetches), NoFetch)
    /\ calendarPage' =
         IF IsOk(resp[calendarPage.fetches[1]])
         THEN [calendarPage EXCEPT !.toast = [NoMessage EXCEPT !.kind = "success"],
                                   !.isModalOpen = FALSE,
                                   !.selectedEventData = NoSelectedEventData,
                                   !.form = EmptyObject,
                                   !.fetchEventsDue = TRUE,
                                   !.running = "", !.fetches = <<>>]
         ELSE [calendarPage EXCEPT !.toast = [NoMessage EXCEPT !.kind = "error"],
                                   !.running = "", !.fetches = <<>>]
    /\ UNCHANGED <<store, now, jar, tablePage, todoPage>>

(***************************************************************************)
(* SpecBatch: the administrator opens the table page or the todo page,     *)
(* selects rows and deletes the selection, while a role lookup or a fetch  *)
(* can fail.                                                               *)
(***************************************************************************)
NextBatch ==
    \/ OpenTablePage
    \/ \E s \in Slots : TableFetchItems(s)
    \/ TableFetchItemsSettled
    \/ \E id \in 1..MaxItemId, checked \in BOOLEAN : handleSelectItem(id, checked)
    \/ \E open \in BOOLEAN : setIsBatchDeleteConfirmOpen(open)
    \/ confirmBatchDelete
    \/ confirmBatchDeleteSettled
    \/ OpenTodoPage
    \/ \E s \in Slots : TodoFetchTodos(s)
    \/ TodoFetchTodosSettled
    \/ \E t \in SeedTodos : handleToggleSelectTodo(t.id)
    \/ handleBatchDelete
    \/ \E clicked \in BOOLEAN : TodoConfirmCancelled(clicked)
    \/ TodoBatchDeleteClicked
    \/ TodoBatchDeleteFulfilled
    \/ \E s \in Slots : TodoBatchDeleteRejected(s)
    \/ \E s \in Slots : TodoBatchDeleteAnswered(s)
    \/ \E s \in Slots : FetchRejects(s)
    \/ \E s \in Slots : Gate(s)
    \/ \E s \in Slots : ItemsGET(s)
    \/ \E s \in Slots : ItemsGETCount(s)
    \/ \E s \in Slots : ItemDELETE(s)
    \/ \E s \in Slots : TodosGET(s)
    \/ \E s \in Slots : TodosGETFind(s)
    \/ \E s \in Slots : TodoDELETE(s)
    \/ \E s \in Slots : TodoDELETEDelete(s)

SpecBatch == Init /\ [][NextBatch]_vars

\* the number of i with outcome[i] = v
CountOf(outcome, v) == Cardinality({i \in 1..Len(outcome) : outcome[i] = v})

\* the message states that `failed` sub-requests failed
StatesFailed(message, failed) == "failed" \in message.states /\ message.failed = failed

\* the table page's batch delete ends with this step; results is what allSettled
\* gave, TRUE for a response that was ok
TableBatchEnds ==
    /\ tablePage.running \in {"confirmBatchDelete", "confirmBatchDelete:fetchItems"}
    /\ tablePage'.running = ""

TableBatchResults ==
    IF tablePage.running = "confirmBatchDelete"
    THEN [i \in 1..Len(tablePage.fetches) |-> IsOk(resp[tablePage.fetches[i]])]
    ELSE tablePage.results

\* the todo page's batch delete ends with this step: its last response is taken
TodoBatchEnds ==
    /\ todoPage.running \in {"handleBatchDelete", "handleBatchDelete:rejected"}
    /\ todoPage'.running = ""

\* C24 (as claimed): a batch delete over N selected records makes N requests;
\* when it ends, every record whose request was answered ok is gone from the
\* store whatever became of the other requests, and when some request failed the
\* page shows a message that states how many failed.
C24_BatchReportsCounts ==
    [][/\ TableBatchEnds =>
            /\ Len(tablePage.currentSelectedItemIds) = Len(TableBatchResults)
            /\ \A i \in 1..Len(TableBatchResults) :
                  TableBatchResults[i]
                  => ~\E row \in items' : row.id = tablePage.currentSelectedItemIds[i]
            /\ CountOf(TableBatchResults, FALSE) > 0
                  => StatesFailed(tablePage'.globalError,
                                  CountOf(TableBatchResults, FALSE))
       /\ TodoBatchEnds =>
            /\ Len(todoPage'.promises) = Len(todoPage.ids)
            /\ \A i \in 1..Len(todoPage.ids) :
                  todoPage'.promises[i] = "fulfilled"
                  => ~\E row \in todos' : row.id = todoPage.ids[i]
            /\ CountOf(todoPage'.promises, "rejected") > 0
                  => StatesFailed(todoPage'.toast,
                                  CountOf(todoPage'.promises, "rejected"))]_vars

\* the part of C24 that holds: the requests are independent and what succeeded
\* stays deleted
BatchIndependent ==
    [][/\ TableBatchEnds =>
            /\ Len(tablePage.currentSelectedItemIds) = Len(TableBatchResults)
            /\ \A i \in 1..Len(TableBatchResults) :
                  TableBatchResults[i]
                  => ~\E row \in items' : row.id = tablePage.currentSelectedItemIds[i]
       /\ TodoBatchEnds =>
            /\ Len(todoPage'.promises) = Len(todoPage.ids)
            /\ \A i \in 1..Len(todoPage.ids) :
                  todoPage'.promises[i] = "fulfilled"
                  => ~\E row \in todos' : row.id = todoPage.ids[i]]_vars

(***************************************************************************)
(* SpecSequentialEdit: the administrator selects rows of the table page    *)
(* and edits them one after the other, or edits one row, changing the      *)
(* quantity; a save can fail.                                              *)
(***************************************************************************)
NextSequentialEdit ==
    \/ OpenTablePage
    \/ \E s \in SeqSlots : TableFetchItems(s)
    \/ TableFetchItemsSettled
    \/ \E id \in 1..MaxItemId, checked \in BOOLEAN : handleSelectItem(id, checked)
    \/ startSequentialEdit
    \/ handleSequentialSkip
    \/ handleAddEditDialogClose
    \/ \E id \in 1..MaxItemId : handleOpenAddEditDialog(id)
    \/ handleFormDataChange("quantity", Num(5))
    \/ \E s \in SeqSlots : handleSave(s)
    \/ handleSaveSettled
    \/ \E s \in SeqSlots : FetchRejects(s)
    \/ \E s \in SeqSlots : Gate(s)
    \/ \E s \in SeqSlots : ItemsGET(s)
    \/ \E s \in SeqSlots : ItemsGETCount(s)
    \/ \E s \in SeqSlots : ItemPUT(s)

SpecSequentialEdit == Init /\ [][NextSequentialEdit]_vars

\* C25 (as claimed): while the sequential-edit dialog shows an item, the index
\* points into the queue and the item shown is the queue's item at the index;
\* the index moves one item at a time; and when the mode is off the queue is
\* empty and the index is 0.
C25_SequentialEditIndex ==
    LET p == tablePage
    IN /\ (p.isSequentialEditMode /\ p.isAddEditDialogOpen)
            => /\ p.currentSequentialEditIndex < Len(p.sequentialEditQueue)
               /\ p.editingItem = p.sequentialEditQueue[p.currentSequentialEditIndex + 1].id
       /\ ~p.isSequentialEditMode
            => p.sequentialEditQueue = <<>> /\ p.currentSequentialEditIndex = 0

(***************************************************************************)
(* SpecForms: the add/edit forms of the three pages.  The administrator    *)
(* edits an item (alone or in a sequential edit), creates or edits a todo, *)
(* creates or edits a calendar event; a save can fail in the gate, in the  *)
(* handler or on the network.                                              *)
(***************************************************************************)
NextForms ==
    \/ OpenTablePage
    \/ \E s \in SeqSlots : TableFetchItems(s)
    \/ TableFetchItemsSettled
    \/ \E id \in 1..2, checked \in BOOLEAN : handleSelectItem(id, checked)
    \/ startSequentialEdit
    \/ handleSequentialSkip
    \/ handleAddEditDialogClose
    \/ handleOpenAddEditDialog(1)
    \/ handleFormDataChange("quantity", Num(5))
    \/ \E s \in SeqSlots : handleSave(s)
    \/ handleSaveSettled
    \/ OpenTodoPage
    \/ \E s \in SeqSlots : TodoFetchTodos(s)
    \/ TodoFetchTodosSettled
    \/ \E open \in BOOLEAN : setIsCreateDialogOpen(open)
    \/ \E todo \in SeedTodos : openEditDialog(todo)
    \/ TodoEditDialogClose
    \/ \E text \in {<<"c">>, <<" ">>} : TodoSetText(text)
    \/ \E s \in SeqSlots : handleCreateSubmit(s)
    \/ createTodoSettled
    \/ \E s \in SeqSlots : handleEditSubmit(s)
    \/ updateTodoSettled
    \/ OpenCalendarPage
    \/ \E s \in SeqSlots : CalendarFetchEvents(s)
    \/ CalendarFetchEventsSettled
    \/ handleDateSelect(1)
    \/ \E event \in SeedEvents : handleEventClick(event)
    \/ CalendarModalClose
    \/ \E title \in {"c", " "} : CalendarSetTitle(title)
    \/ \E s \in SeqSlots : handleModalSave(s)
    \/ handleModalSaveSettled
    \/ \E s \in SeqSlots : FetchRejects(s)
    \/ \E s \in SeqSlots : Gate(s)
    \/ \E s \in SeqSlots : NoRoute(s)
    \/ \E s \in SeqSlots : ItemsGET(s)
    \/ \E s \in SeqSlots : ItemsGETCount(s)
    \/ \E s \in SeqSlots : ItemPUT(s)
    \/ \E s \in SeqSlots : TodosGET(s)
    \/ \E s \in SeqSlots : TodosGETFind(s)
    \/ \E s \in SeqSlots : TodoPUT(s)
    \/ \E s \in SeqSlots : TodoPUTUser(s)
    \/ \E s \in SeqSlots : TodoPUTUpdate(s)
    \/ \E s \in SeqSlots : EventsGET(s)
    \/ \E s \in SeqSlots : EventPOST(s)
    \/ \E s \in SeqSlots : EventPUT(s)

SpecForms == Init /\ [][NextForms]_vars

\* a save of the page ends in failure with this step: the callback that awaited
\* it returns and the response it awaited was not ok
TableSaveFails ==
    /\ tablePage.running = "handleSave" /\ tablePage'.running = ""
TodoSaveFails ==
    /\ todoPage.running \in {"createTodo", "updateTodo"} /\ todoPage'.running = ""
    /\ ~IsOk(resp[todoPage.fetches[1]])
CalendarSaveFails ==
    /\ calendarPage.running = "handleModalSave" /\ calendarPage'.running = ""
    /\ ~IsOk(resp[calendarPage.fetches[1]])

\* C26: when a save fails, a form that is open stays open and keeps the values
\* the user entered; in a sequential edit the same item stays current and the
\* index does not advance.
C26_FailedSaveKeepsForm ==
    [][/\ (TableSaveFails /\ tablePage.isAddEditDialogOpen)
            => /\ tablePage'.isAddEditDialogOpen
               /\ tablePage'.formData = tablePage.formData
               /\ tablePage'.editingItem = tablePage.editingItem
               /\ tablePage'.isSequentialEditMode = tablePage.isSequentialEditMode
               /\ tablePage'.sequentialEditQueue = tablePage.sequentialEditQueue
               /\ tablePage'.currentSequentialEditIndex
                     = tablePage.currentSequentialEditIndex
       /\ (TodoSaveFails /\ (todoPage.isCreateDialogOpen \/ todoPage.isEditDialogOpen))
            => /\ todoPage'.isCreateDialogOpen = todoPage.isCreateDialogOpen
               /\ todoPage'.isEditDialogOpen = todoPage.isEditDialogOpen
               /\ todoPage'.editingTodo = todoPage.editingTodo
               /\ todoPage'.formData = todoPage.formData
       /\ (CalendarSaveFails /\ calendarPage.isModalOpen)
            => /\ calendarPage'.isModalOpen
               /\ calendarPage'.modalMode = calendarPage.modalMode
               /\ calendarPage'.selectedEventData = calendarPage.selectedEventData
               /\ calendarPage'.form = calendarPage.form]_vars

\* a save of the sequential edit has failed: the dialog is open on the item with
\* the quantity the user typed
C26_Witness ==
    /\ tablePage.globalError.kind = "saveFailed"
    /\ tablePage.running = ""
    /\ tablePage.isAddEditDialogOpen
    /\ tablePage.isSequentialEditMode
    /\ tablePage.editingItem # 0
    /\ tablePage.formData.quantity = Num(5)

(***************************************************************************)
(* SpecConfirm: the deletes of the three pages.  The administrator deletes *)
(* a row or the selected rows of the table page, a todo or the selected    *)
(* todos, or the event the calendar's modal shows, and answers or          *)
(* dismisses what the page asks.                                           *)
(***************************************************************************)
NextConfirm ==
    \/ OpenTablePage
    \/ \E s \in SeqSlots : TableFetchItems(s)
    \/ TableFetchItemsSettled
    \/ \E id \in 1..2, checked \in BOOLEAN : handleSelectItem(id, checked)
    \/ \E id \in 1..2 : openSingleDeleteConfirmDialog(id)
    \/ \E open \in BOOLEAN : setIsSingleDeleteConfirmOpen(open)
    \/ \E s \in SeqSlots : confirmSingleDelete(s)
    \/ confirmSingleDeleteSettled
    \/ \E open \in BOOLEAN : setIsBatchDeleteConfirmOpen(open)
    \/ confirmBatchDelete
    \/ confirmBatchDeleteSettled
    \/ OpenTodoPage
    \/ \E s \in SeqSlots : TodoFetchTodos(s)
    \/ TodoFetchTodosSettled
    \/ \E t \in SeedTodos : handleToggleSelectTodo(t.id)
    \/ \E t \in SeedTodos : deleteSingleTodo(t.id)
    \/ \E s \in SeqSlots : TodoDeleteClicked(s)
    \/ deleteSingleTodoSettled
    \/ handleBatchDelete
    \/ \E clicked \in BOOLEAN : TodoConfirmCancelled(clicked)
    \/ TodoBatchDeleteClicked
    \/ TodoBatchDeleteFulfilled
    \/ \E s \in Slots : TodoBatchDeleteRejected(s)
    \/ \E s \in Slots : TodoBatchDeleteAnswered(s)
    \/ OpenCalendarPage
    \/ \E s \in SeqSlots : CalendarFetchEvents(s)
    \/ CalendarFetchEventsSettled
    \/ \E event \in SeedEvents : handleEventClick(event)
    \/ CalendarModalClose
    \/ handleModalDelete
    \/ \E ok \in BOOLEAN, s \in SeqSlots : WindowConfirmReturns(ok, s)
    \/ handleModalDeleteSettled
    \/ \E s \in Slots : FetchRejects(s)
    \/ \E s \in Slots : Gate(s)
    \/ \E s \in Slots : ItemsGET(s)
    \/ \E s \in Slots : ItemsGETCount(s)
    \/ \E s \in Slots : ItemDELETE(s)
    \/ \E s \in Slots : TodosGET(s)
    \/ \E s \in Slots : TodosGETFind(s)
    \/ \E s \in Slots : TodoDELETE(s)
    \/ \E s \in Slots : TodoDELETEDelete(s)
    \/ \E s \in Slots : EventsGET(s)
    \/ \E s \in Slots : EventDELETE(s)

SpecConfirm == Init /\ [][NextConfirm]_vars

\* with this step a DELETE request is put on connection s
DeleteSent(s) == req'[s].method = "DELETE" /\ req'[s] # req[s]

\* the page shows a confirmation that names the row at `path`
ConfirmationShown(path) ==
    \/ /\ tablePage.isSingleDeleteConfirmOpen /\ tablePage.itemToDelete # 0
       /\ path = ItemPath(NumberToString(tablePage.itemToDelete))
    \/ /\ tablePage.isBatchDeleteConfirmOpen
       /\ \E id \in Range(tablePage.selectedItemIds) : path = ItemPath(NumberToString(id))
    \/ /\ todoPage.confirm.kind \in {"delete", "batchDelete"}
       /\ \E id \in Range(todoPage.confirm.ids) : path = TodoPath(id)
    \/ /\ calendarPage.confirm.kind = "delete"
       /\ path = EventPath(calendarPage.confirm.ids[1])

\* a confirmation is shown
Asking ==
    \/ (tablePage.isSingleDeleteConfirmOpen \/ tablePage.isBatchDeleteConfirmOpen)
    \/ todoPage.confirm # NoConfirm
    \/ calendarPage.confirm # NoConfirm

\* the step dismisses what was asked: afterwards nothing is asked and no delete
\* callback has been started
Dismissed ==
    /\ Asking /\ ~Asking'
    /\ tablePage'.running = "" /\ todoPage'.running = "" /\ calendarPage'.running = ""
    /\ tablePage.running = "" /\ todoPage.running = "" /\ calendarPage.running = ""

\* C27: a DELETE request is sent only by a step taken from a confirmation that
\* names the row to delete, and a step that dismisses the confirmation sends no
\* request.
C27_DeleteOnlyAfterConfirmation ==
    [][/\ \A s \in Slots : DeleteSent(s) => ConfirmationShown(req'[s].path)
       /\ Dismissed => (req' = req /\ pc' = pc)]_vars

\* the event's delete was confirmed and its DELETE request is on its way
C27_Witness ==
    /\ \E s \in Slots : req[s].method = "DELETE" /\ pc[s] = "gate"
    /\ calendarPage.running = "handleModalDelete"

(***************************************************************************)
(* SpecPaging: the table page over a table of one row more than a page     *)
(* holds.  The rows were created one after the other, so the newest ten    *)
(* are page 1 and the oldest is page 2.  The administrator turns pages,    *)
(* selects rows and deletes one row or the selected rows.                  *)
(***************************************************************************)
PagedRows == 11

ManyItems ==
    { [id |-> i, storeName |-> "A", itemName |-> <<"m">>, quantity |-> 1,
       specification |-> "s", deliveryMethod |-> "DIRECT", notes |-> NoText,
       progressStatus |-> "UNCONFIRMED",
       createdAt |-> i - PagedRows, updatedAt |-> i - PagedRows] : i \in 1..PagedRows }

InitPaging ==
    /\ users = SeedUsers
    /\ items = ManyItems
    /\ todos = SeedTodos
    /\ events = SeedEvents
    /\ seqs = [item |-> PagedRows, uuid |-> 0]
    /\ now = 0
    /\ pc = [s \in Slots |-> "idle"]
    /\ req = [s \in Slots |-> NoRequest]
    /\ ctx = [s \in Slots |-> NoCtx]
    /\ resp = [s \in Slots |-> NoResp]
    /\ jar = EmptyJar
    /\ tablePage = TablePageInit
    /\ todoPage = TodoPageInit
    /\ calendarPage = CalendarPageInit

NextPaging ==
    \/ OpenTablePage
    \/ \E s \in SeqSlots : TableFetchItems(s)
    \/ TableFetchItemsSettled
    \/ \E page \in 1..2 : setCurrentPage(page)
    \/ \E id \in 1..2, checked \in BOOLEAN : handleSelectItem(id, checked)
    \/ \E checked \in BOOLEAN : handleSelectAllCurrentPage(checked)
    \/ \E id \in 1..2 : openSingleDeleteConfirmDialog(id)
    \/ \E open \in BOOLEAN : setIsSingleDeleteConfirmOpen(open)
    \/ \E s \in SeqSlots : confirmSingleDelete(s)
    \/ confirmSingleDeleteSettled
    \/ \E open \in BOOLEAN : setIsBatchDeleteConfirmOpen(open)
    \/ confirmBatchDelete
    \/ confirmBatchDeleteSettled
    \/ \E s \in Slots : FetchRejects(s)
    \/ \E s \in Slots : Gate(s)
    \/ \E s \in Slots : ItemsGET(s)
    \/ \E s \in Slots : ItemsGETCount(s)
    \/ \E s \in Slots : ItemDELETE(s)

SpecPaging == InitPaging /\ [][NextPaging]_vars

\* with this step a fetchItems ends that was answered with a page of the list
ListShown ==
    /\ tablePage.running \in {"fetchItems", "confirmBatchDelete:fetchItems",
                              "confirmSingleDelete:fetchItems"}
    /\ tablePage'.running = ""
    /\ IsOk(resp[tablePage.fetches[1]])

\* max(1, totalPages)
LastPage(p) == IF p.serverTotalPages > 1 THEN p.serverTotalPages ELSE 1

\* C28 (as claimed): the page number never drops below 1, and when the list is
\* shown again after a delete the page number lies in 1..max(1, totalPages) and
\* the page is not an empty one while the table has rows.
C28_PageWithinRange ==
    [][/\ tablePage'.currentPage >= 1
       /\ ListShown => /\ tablePage'.currentPage \in 1..LastPage(tablePage')
                       /\ tablePage'.items # <<>> \/ tablePage'.totalDbItems = 0]_vars

\* the selection holds rows of the page shown only
SelectionShown == Range(tablePage.selectedItemIds) \subseteq Range(IdsOf(tablePage.items))

\* the same, while the rows to delete are rows of the page shown
PageWithinRangeWhenSelectionShown ==
    [][/\ tablePage'.currentPage >= 1
       /\ (ListShown /\ Range(tablePage.currentSelectedItemIds)
                           \subseteq Range(IdsOf(tablePage.items)))
            => /\ tablePage'.currentPage \in 1..LastPage(tablePage')
               /\ tablePage'.items # <<>> \/ tablePage'.totalDbItems = 0]_vars

(***************************************************************************)
(* SpecSelection: the selection of the todo page.  The administrator ticks *)
(* todos, filters the list by priority, and deletes or completes the       *)
(* selected todos.                                                         *)
(***************************************************************************)
\* the user's clicks on the list come when no batch is under way, and a run
\* holds one batch
BetweenBatches == todoPage.running = ""
FirstBatch == todoPage.promises = <<>>

ToggleBetweenBatches == BetweenBatches /\ handleToggleSelectTodo(<<"t", "1">>)
SelectAllBetweenBatches == BetweenBatches /\ handleSelectAllTodos
FilterBetweenBatches == BetweenBatches /\ handleFilterChange("priority", "LOW")
FirstBatchDelete == FirstBatch /\ handleBatchDelete
FirstBatchUpdate == FirstBatch /\ handleBatchUpdateCompletion(TRUE)

NextSelection ==
    \/ OpenTodoPage
    \/ \E s \in Slots : TodoFetchTodos(s)
    \/ TodoFetchTodosSettled
    \/ ToggleBetweenBatches
    \/ SelectAllBetweenBatches
    \/ FilterBetweenBatches
    \/ FirstBatchDelete
    \/ TodoConfirmCancelled(TRUE)
    \/ TodoBatchDeleteClicked
    \/ TodoBatchDeleteFulfilled
    \/ \E s \in Slots : TodoBatchDeleteRejected(s)
    \/ \E s \in Slots : TodoBatchDeleteAnswered(s)
    \/ FirstBatchUpdate
    \/ performBatchUpdateFulfilled
    \/ \E s \in Slots : performBatchUpdateRejected(s)
    \/ \E s \in Slots : performBatchUpdateAnswered(s)
    \/ \E s \in Slots : Gate(s)
    \/ \E s \in Slots : TodosGET(s)
    \/ \E s \in Slots : TodosGETFind(s)
    \/ \E s \in Slots : TodoDELETE(s)
    \/ \E s \in Slots : TodoDELETEDelete(s)
    \/ \E s \in Slots : TodoPUT(s)
    \/ \E s \in Slots : TodoPUTUpdate(s)

SpecSelection == Init /\ [][NextSelection]_vars

\* with this step a list fetch of the todo page completes
ListFetchCompletes == todoPage.listFetch # 0 /\ todoPage'.listFetch = 0

\* with this step a request of a batch is put on connection s
BatchRequestSent(s) == req'[s].method \in {"DELETE", "PUT"} /\ req'[s] # req[s]

\* the selection after every completed list fetch holds displayed todos only
SelectionDisplayed ==
    [][ListFetchCompletes
         => Range(todoPage'.selectedTodoIds) \subseteq Range(IdsOf(todoPage'.todos))]_vars

\* C29 (as claimed): after every completed list fetch the selected ids are ids of
\* displayed todos, and every request of a batch delete or batch update is for
\* a todo that the page displays when the request is sent.
C29_BatchTargetsDisplayed ==
    [][/\ ListFetchCompletes
            => Range(todoPage'.selectedTodoIds) \subseteq Range(IdsOf(todoPage'.todos))
       /\ \A s \in Slots :
            BatchRequestSent(s)
            => \E id \in Range(IdsOf(todoPage.todos)) : req'[s].path = TodoPath(id)]_vars

(***************************************************************************)
(* SpecDashboard: the dashboard is asked for while items are created,      *)
(* deleted and change status.                                              *)
(***************************************************************************)
DashboardRequests == {Request("GET", PathDashboard, GenerateToken(1, 0))}

DashboardWrites ==
    {Request("DELETE", ItemPath(<<"2">>), GenerateToken(1, 0)),
     [Request("PUT", ItemPath(<<"1">>), GenerateToken(1, 0)) EXCEPT
        !.body = [EmptyObject EXCEPT !.progressStatus = Str("COMPLETED")]],
     [Request("POST", PathItems, GenerateToken(1, 0)) EXCEPT
        !.body = [EmptyObject EXCEPT !.storeName = Str("B"), !.itemName = Chars(<<"z">>),
                                     !.quantity = Num(3), !.specification = Str("s"),
                                     !.deliveryMethod = Str("DIRECT")]]}

\* the dashboard is asked for on one connection, the writes come on the other
NextDashboard ==
    \/ \E s \in SeqSlots : Send(s, DashboardRequests)
    \/ \E s \in Slots \ SeqSlots : Send(s, DashboardWrites)
    \/ \E s \in Slots : Gate(s)
    \/ \E s \in Slots : DashboardGET(s)
    \/ \E s \in Slots : DashboardGroupBy(s)
    \/ \E s \in Slots : DashboardCount(s)
    \/ \E s \in Slots : ItemPOST(s)
    \/ \E s \in Slots : ItemPUT(s)
    \/ \E s \in Slots : ItemDELETE(s)
    \/ \E s \in Slots : Receive(s)

SpecDashboard == Init /\ [][NextDashboard]_vars

\* the dashboard has answered on connection s
DashboardAnswered(s) ==
    pc[s] = "done" /\ ctx[s].handler = "dashboard:GET" /\ resp[s].status = 200

\* C30 (as claimed): in every response of the dashboard, overallStats.totalItems
\* is totalUnconfirmed + totalInProgress + totalCompleted, whatever is written
\* to the items while the request is served.
C30_DashboardConsistent ==
    \A s \in Slots :
        DashboardAnswered(s)
        => LET o == resp[s].dashboard.overallStats
           IN o.totalItems = o.totalUnconfirmed + o.totalInProgress + o.totalCompleted

====
